---- MODULE Spec2Model ----
(***************************************************************************)
(* Subcommand dispatch of the `command` package.                           *)
(*                                                                         *)
(* src/ holds three revisions of the package:                              *)
(*   "pkg"    src/command.go        package-level On / Parse / Run with    *)
(*                                  required flags and a help hook         *)
(*   "cmdr"   src/unnamed/part_004  Commander objects with Parse / Exec,   *)
(*                                  required flags, nesting through Parse  *)
(*   "launch" src/unnamed/part_003  Commander objects with Run / Launch /  *)
(*                                  prepare / Compgen                      *)
(* The variable rev says which revision a behaviour executes.              *)
(*                                                                         *)
(* Tokens, command names and flag names are sequences of one-character     *)
(* strings, so that the flag parser works on the characters as             *)
(* flag.FlagSet.parseOne does.                                             *)
(***************************************************************************)
EXTENDS Integers, Sequences, FiniteSets, TLC

\* ------------------------------------------------------------------ bounds
\* longest argument vector (os.Args without the program name)
MaxArgs == 3
\* most registration calls (On, DefineHelp) in one behaviour
MaxOn == 2
\* most calls of Run / Exec that reach a matched command in one behaviour
MaxRuns == 2

\* --------------------------------------------------------- tokens and names
nC     == <<"c">>
nC1    == <<"c", "1">>
nHelp  == <<"h", "e", "l", "p">>
fA     == <<"a">>
fB     == <<"b">>
fH     == <<"h">>
tA1    == <<"-", "-", "a", "=", "1">>
tA     == <<"-", "a">>
tB     == <<"-", "b">>
tH     == <<"-", "h">>
Program == <<"p">>

\* the tokens argument vectors are built from
Tokens == {nC, nC1, tA1, tA, tB, tH}

\* the names a program registers commands under
Names == {nC, nC1, nHelp}

ArgVectors == UNION {[1..n -> Tokens] : n \in 0..MaxArgs}

\* a nil pointer is the empty sequence, a non-nil one a one-element sequence
NilPtr == <<>>
Ptr(x) == <<x>>
Deref(p) == p[1]

\* ---------------------------------------------------------- the flag package
\* strconv.ParseBool, as flag's boolValue.Set uses it
BoolTrue  == {<<"1">>, <<"t">>, <<"T">>, <<"t","r","u","e">>, <<"T","R","U","E">>, <<"T","r","u","e">>}
BoolFalse == {<<"0">>, <<"f">>, <<"F">>, <<"f","a","l","s","e">>, <<"F","A","L","S","E">>, <<"F","a","l","s","e">>}

\* flag.NewFlagSet: no formal flags, nothing set, nothing parsed
NewFlagSet == [formal |-> <<>>, actual |-> {}, bools |-> <<>>, args |-> <<>>]

\* fs.String / fs.Bool: declares flag name of the given kind; a bool defaults to false
Declare(fs, name, kind) ==
    [fs EXCEPT !.formal = (name :> kind) @@ fs.formal,
               !.bools = IF kind = "bool" THEN (name :> FALSE) @@ fs.bools ELSE fs.bools]

RECURSIVE IndexEq(_, _)
\* the first position i >= from of name holding '=', 0 when there is none
IndexEq(name, from) ==
    IF from > Len(name) THEN 0
    ELSE IF name[from] = "=" THEN from
    ELSE IndexEq(name, from + 1)

\* flag.FlagSet.parseOne: [seen, err, fs]; err is "nil", "ErrHelp" or "error"
parseOne(fs) ==
    IF Len(fs.args) = 0 THEN [seen |-> FALSE, err |-> "nil", fs |-> fs]
    ELSE
    LET s == fs.args[1] IN
    IF Len(s) < 2 \/ s[1] # "-" THEN [seen |-> FALSE, err |-> "nil", fs |-> fs]
    ELSE
    LET numMinuses == IF s[2] = "-" THEN 2 ELSE 1 IN
    IF numMinuses = 2 /\ Len(s) = 2
    THEN \* "--" terminates the flags
         [seen |-> FALSE, err |-> "nil", fs |-> [fs EXCEPT !.args = Tail(fs.args)]]
    ELSE
    LET full == SubSeq(s, numMinuses + 1, Len(s)) IN
    IF Len(full) = 0 \/ full[1] = "-" \/ full[1] = "="
    THEN [seen |-> FALSE, err |-> "error", fs |-> fs]
    ELSE
    LET rest     == Tail(fs.args)
        eq       == IndexEq(full, 2)
        hasValue == eq # 0
        name     == IF hasValue THEN SubSeq(full, 1, eq - 1) ELSE full
        value    == IF hasValue THEN SubSeq(full, eq + 1, Len(full)) ELSE <<>>
        f1       == [fs EXCEPT !.args = rest]
    IN
    IF name \notin DOMAIN fs.formal
    THEN IF name = nHelp \/ name = fH
         THEN [seen |-> FALSE, err |-> "ErrHelp", fs |-> f1]
         ELSE [seen |-> FALSE, err |-> "error", fs |-> f1]
    ELSE IF fs.formal[name] = "bool"
    THEN IF hasValue
         THEN IF value \in BoolTrue \cup BoolFalse
              THEN [seen |-> TRUE, err |-> "nil",
                    fs |-> [f1 EXCEPT !.bools[name] = (value \in BoolTrue),
                                      !.actual = @ \cup {name}]]
              ELSE [seen |-> FALSE, err |-> "error", fs |-> f1]
         ELSE [seen |-> TRUE, err |-> "nil",
               fs |-> [f1 EXCEPT !.bools[name] = TRUE, !.actual = @ \cup {name}]]
    ELSE \* a flag with a value, which might be the next argument
         IF hasValue
         THEN [seen |-> TRUE, err |-> "nil", fs |-> [f1 EXCEPT !.actual = @ \cup {name}]]
         ELSE IF Len(rest) > 0
         THEN [seen |-> TRUE, err |-> "nil",
               fs |-> [f1 EXCEPT !.args = Tail(rest), !.actual = @ \cup {name}]]
         ELSE [seen |-> FALSE, err |-> "error", fs |-> f1]

RECURSIVE parseLoop(_)
\* the loop of flag.FlagSet.Parse: parseOne until it sees no flag or fails
parseLoop(fs) ==
    LET Seen(r) == IF r.seen THEN parseLoop(r.fs) ELSE [err |-> r.err, fs |-> r.fs]
    IN Seen(parseOne(fs))

\* flag.FlagSet.Parse(arguments): [err, fs]; what follows an error (usage, exit)
\* is the caller's errorHandling and is modelled where Parse is called
FlagParse(fs, arguments) == parseLoop([fs EXCEPT !.args = arguments])


\* ------------------------------------------------------------ sort.Strings
\* the characters of the tokens in byte order
Alphabet == <<" ", "-", "1", "=", "a", "b", "c", "e", "h", "l", "p", "s", "u">>

CharOrd(ch) == CHOOSE i \in 1..Len(Alphabet) : Alphabet[i] = ch

RECURSIVE StrLess(_, _)
\* Go's < on strings: byte-wise lexicographic
StrLess(x, y) ==
    IF Len(y) = 0 THEN FALSE
    ELSE IF Len(x) = 0 THEN TRUE
    ELSE IF x[1] # y[1] THEN CharOrd(x[1]) < CharOrd(y[1])
    ELSE StrLess(Tail(x), Tail(y))

RECURSIVE SortStrings(_)
\* the elements of the set keys as an ascending sequence
SortStrings(keys) ==
    IF keys = {} THEN <<>>
    ELSE LET m == CHOOSE k \in keys : \A o \in keys \ {k} : StrLess(k, o)
         IN <<m>> \o SortStrings(keys \ {m})

\* ---------------------------------------------------- the program's commands
\* the Cmd implementations the embedding program registers in revision "pkg"
Cmds == {"cmd1", "cmd2"}
\* the Cmd the embedding program passes to DefineHelp
HelpCmds == {"helpCmd"}
Nil == "nil"

\* Cmd.Flags(fs): cmd1 declares a string flag a and a bool flag b, cmd2 a bool
\* flag a, helpCmd nothing
CmdFlags(cmd, fs) ==
    CASE cmd = "cmd1" -> Declare(Declare(fs, fA, "string"), fB, "bool")
      [] cmd = "cmd2" -> Declare(fs, fA, "bool")
      [] OTHER -> fs

\* the flags the embedding program declares on flag.CommandLine
GlobalFlagSet == Declare(NewFlagSet, fA, "string")

\* the requiredFlags arguments the program passes to On
RequiredChoices == {<<>>, <<fA, fB>>}

\* the calls of On the program makes: cmd1 under c and c1 with or without
\* required flags, cmd2 under c and c1 without, and cmd2 as the help command
Registrations ==
    {[name |-> n, command |-> "cmd1", requiredFlags |-> r] :
        n \in {nC, nC1}, r \in RequiredChoices}
    \cup {[name |-> n, command |-> "cmd2", requiredFlags |-> <<>>] : n \in {nC, nC1, nHelp}}

\* ------------------------------------------------------------------- state
VARIABLES
    rev,          \* the revision this behaviour executes
    osArgs,       \* os.Args[1:], fixed for the process; drawn when first read
    cmds,         \* pkg: the registered sub-commands, name -> cmdCont
    matchingCmd,  \* pkg: the matching cmdCont, or nil
    args,         \* pkg: the arguments for the subcommand's Run
    flagHelp,     \* pkg: pointer to the subcommand's -h value, or nil
    definedHelp,  \* pkg: the Cmd given to DefineHelp, or nil
    flagUsage,    \* pkg: the function flag.Usage holds
    cmdr,         \* cmdr: the root commander
    commanders,   \* launch: the commander objects, id -> commander
    steps,        \* launch: the steps taken on the matched handlers, in order
    comp,         \* launch: the last call of Compgen with what it returned, or nil
    numOn,        \* registration calls so far
    out,          \* what was printed, in order
    ran,          \* the calls of a Cmd's Run, in order
    exit          \* the exit status once the process has exited, else nil

vars == <<rev, osArgs, cmds, matchingCmd, args, flagHelp, definedHelp, flagUsage,
          cmdr, commanders, steps, comp, numOn, out, ran, exit>>

\* the variables revision "pkg" leaves alone
OtherThanPkg == <<cmdr, commanders, steps, comp>>

\* one printed block
Printed(kind, name, list) == [kind |-> kind, name |-> name, list |-> list]
\* one call of a Cmd's Run
Call(cmd, a) == [cmd |-> cmd, args |-> a]

\* the exit status flag.Parse gives ErrHelp under ExitOnError is 2 before
\* Go 1.15 and 0 since: the operators below exit with 0 on ErrHelp, and the
\* actions let the build decide between the two
ExitStatuses(e) == IF e = Ptr(0) THEN {Ptr(0), Ptr(2)} ELSE {e}

\* the package-level variables of revision "pkg" as one record
PkgState ==
    [cmds |-> cmds, matchingCmd |-> matchingCmd, args |-> args, flagHelp |-> flagHelp,
     definedHelp |-> definedHelp, flagUsage |-> flagUsage, out |-> out, ran |-> ran,
     exit |-> exit]

SetPkg(s) ==
    /\ cmds' = s.cmds
    /\ matchingCmd' = s.matchingCmd
    /\ args' = s.args
    /\ flagHelp' = s.flagHelp
    /\ definedHelp' = s.definedHelp
    /\ flagUsage' = s.flagUsage
    /\ out' = s.out
    /\ ran' = s.ran
    /\ exit' \in ExitStatuses(s.exit)

\* --------------------------------------------------- revision "pkg": command.go
\* a variant of On that keeps the record a name already has
PkgOnKeepFirst(s, name, command, requiredFlags) ==
    [s EXCEPT !.cmds = s.cmds @@ (name :> [name |-> name, command |-> command,
                                           requiredFlags |-> requiredFlags])]

\* On(name, description, command, requiredFlags)
PkgOn(s, name, command, requiredFlags) ==
    [s EXCEPT !.cmds = (name :> [name |-> name, command |-> command,
                                 requiredFlags |-> requiredFlags]) @@ s.cmds]

\* DefineHelp(help)
PkgDefineHelp(s, help) == [s EXCEPT !.definedHelp = help]

\* Usage()
PkgUsage(s) ==
    IF Cardinality(DOMAIN s.cmds) = 0
    THEN [s EXCEPT !.out = Append(@, Printed("UsageOf", Program, <<>>))]
    ELSE [s EXCEPT !.out = Append(@, Printed("Usage", Program, SortStrings(DOMAIN s.cmds)))]

\* subcommandUsage(cont)
PkgSubcommandUsage(s, cont) ==
    [s EXCEPT !.out = Append(@, Printed("subcommandUsage", cont.name, cont.requiredFlags))]

\* a call of the function flag.Usage holds; help's Run gets os.Args[2:]
CallFlagUsage(s, usage, argv) ==
    CASE usage.kind = "help" -> [s EXCEPT !.ran = Append(@, Call(usage.cmd, Tail(argv)))]
      [] usage.kind = "Usage" -> PkgUsage(s)
      [] OTHER -> [s EXCEPT !.out = Append(@, Printed("flagUsage", Program, <<>>))]

\* a variant of flagMap that looks at the first required flag only
flagMapOfFirst(requiredFlags, fs) ==
    {requiredFlags[i] : i \in {j \in 1..Len(requiredFlags) : j = 1}} \ fs.actual

\* the check for required flags (lines 171-178): the required flags that
\* fs.Visit does not visit
flagMap(requiredFlags, fs) ==
    {requiredFlags[i] : i \in 1..Len(requiredFlags)} \ fs.actual

\* the exit status of a FlagSet with ExitOnError whose Parse failed with err
ExitOnError(err) == IF err = "ErrHelp" THEN 0 ELSE 2

\* a variant of PkgParseMatched whose args are every token after the command
\* name, options included
PkgParseMatchedAllTokens(s, cont, rest) ==
    LET Parsed(p) ==
            LET s1 == [s EXCEPT !.flagHelp = Ptr(p.fs.bools[fH])]
                s2 == [s1 EXCEPT !.args = rest, !.matchingCmd = Ptr(cont)]
            IN
            IF p.err # "nil"
            THEN [s1 EXCEPT !.out = Append(@, Printed("flagUsage", cont.name, <<>>)),
                            !.exit = Ptr(ExitOnError(p.err))]
            ELSE IF flagMap(cont.requiredFlags, p.fs) # {}
            THEN [PkgSubcommandUsage(s2, cont) EXCEPT !.exit = Ptr(1)]
            ELSE s2
    IN Parsed(FlagParse(Declare(CmdFlags(cont.command, NewFlagSet), fH, "bool"), rest))

\* a variant of the part of Parse after a command matched that skips the
\* check of the required flags when -h was given
PkgParseMatchedHelpFirst(s, cont, rest) ==
    LET Parsed(p) ==
            LET s1 == [s EXCEPT !.flagHelp = Ptr(p.fs.bools[fH])]
                s2 == [s1 EXCEPT !.args = p.fs.args, !.matchingCmd = Ptr(cont)]
            IN
            IF p.err # "nil"
            THEN [s1 EXCEPT !.out = Append(@, Printed("flagUsage", cont.name, <<>>)),
                            !.exit = Ptr(ExitOnError(p.err))]
            ELSE IF ~p.fs.bools[fH] /\ flagMap(cont.requiredFlags, p.fs) # {}
            THEN [PkgSubcommandUsage(s2, cont) EXCEPT !.exit = Ptr(1)]
            ELSE s2
    IN Parsed(FlagParse(Declare(CmdFlags(cont.command, NewFlagSet), fH, "bool"), rest))

\* a variant of the part of Parse after a command matched that leaves
\* flagHelp as it was
PkgParseMatchedNoHelpPtr(s, cont, rest) ==
    LET Parsed(p) ==
            LET s2 == [s EXCEPT !.args = p.fs.args, !.matchingCmd = Ptr(cont)]
            IN
            IF p.err # "nil"
            THEN [s EXCEPT !.out = Append(@, Printed("flagUsage", cont.name, <<>>)),
                           !.exit = Ptr(ExitOnError(p.err))]
            ELSE IF flagMap(cont.requiredFlags, p.fs) # {}
            THEN [PkgSubcommandUsage(s2, cont) EXCEPT !.exit = Ptr(1)]
            ELSE s2
    IN Parsed(FlagParse(Declare(CmdFlags(cont.command, NewFlagSet), fH, "bool"), rest))

\* the part of Parse after a command matched (lines 164-182)
PkgParseMatched(s, cont, rest) ==
    LET Parsed(p) ==
            LET s1 == [s EXCEPT !.flagHelp = Ptr(p.fs.bools[fH])]
                s2 == [s1 EXCEPT !.args = p.fs.args, !.matchingCmd = Ptr(cont)]
            IN
            IF p.err # "nil"
            THEN \* fs has ExitOnError and no Usage of its own
                 [s1 EXCEPT !.out = Append(@, Printed("flagUsage", cont.name, <<>>)),
                            !.exit = Ptr(ExitOnError(p.err))]
            ELSE IF flagMap(cont.requiredFlags, p.fs) # {}
            THEN [PkgSubcommandUsage(s2, cont) EXCEPT !.exit = Ptr(1)]
            ELSE s2
    IN Parsed(FlagParse(Declare(CmdFlags(cont.command, NewFlagSet), fH, "bool"), rest))

\* a variant of the part of Parse after flag.Parse() that does not return when
\* no command is registered
PkgParseCommandNoReturn(s, positional) ==
    LET s2 == [s EXCEPT !.flagUsage = [kind |-> "Usage", cmd |-> Nil]] IN
    IF Len(positional) < 1 THEN [PkgUsage(s2) EXCEPT !.exit = Ptr(1)]
    ELSE IF positional[1] \in DOMAIN s2.cmds
    THEN PkgParseMatched(s2, s2.cmds[positional[1]], Tail(positional))
    ELSE [PkgUsage(s2) EXCEPT !.exit = Ptr(1)]

\* the part of Parse after flag.Parse() returned (lines 151-186)
PkgParseCommand(s, positional) ==
    IF Cardinality(DOMAIN s.cmds) < 1 THEN s
    ELSE
    LET s2 == [s EXCEPT !.flagUsage = [kind |-> "Usage", cmd |-> Nil]] IN
    IF Len(positional) < 1 THEN [PkgUsage(s2) EXCEPT !.exit = Ptr(1)]
    ELSE IF positional[1] \in DOMAIN s2.cmds
    THEN PkgParseMatched(s2, s2.cmds[positional[1]], Tail(positional))
    ELSE [PkgUsage(s2) EXCEPT !.exit = Ptr(1)]

\* Parse()
PkgParse(s, argv) ==
    LET canCallHelp == s.definedHelp # Nil \/ nHelp \in DOMAIN s.cmds
        helpCmd == IF s.definedHelp # Nil THEN s.definedHelp ELSE s.cmds[nHelp].command
        s1 == IF canCallHelp
              THEN [s EXCEPT !.flagUsage = [kind |-> "help", cmd |-> helpCmd]]
              ELSE s
        Parsed(g) ==
            IF g.err # "nil"
            THEN \* flag.CommandLine has ExitOnError and calls flag.Usage
                 [CallFlagUsage(s1, s1.flagUsage, argv) EXCEPT !.exit = Ptr(ExitOnError(g.err))]
            ELSE PkgParseCommand(s1, g.fs.args)
    IN Parsed(FlagParse(GlobalFlagSet, argv))

\* a variant of Run that does not look at flagHelp
PkgRunNoHelp(s) ==
    IF s.matchingCmd # NilPtr
    THEN [s EXCEPT !.ran = Append(@, Call(Deref(s.matchingCmd).command, s.args))]
    ELSE s

\* a variant of Run that calls the matched command's Run a second time
PkgRunTwice(s) ==
    IF s.matchingCmd # NilPtr
    THEN IF s.flagHelp = NilPtr
         THEN [s EXCEPT !.out = Append(@, Printed("panic", <<>>, <<>>)), !.exit = Ptr(2)]
         ELSE IF Deref(s.flagHelp)
         THEN PkgSubcommandUsage(s, Deref(s.matchingCmd))
         ELSE [s EXCEPT !.ran = @ \o <<Call(Deref(s.matchingCmd).command, s.args),
                                       Call(Deref(s.matchingCmd).command, s.args)>>]
    ELSE s

\* a variant of Run that looks the matched name up in cmds again
PkgRunCurrent(s) ==
    IF s.matchingCmd # NilPtr
    THEN IF s.flagHelp = NilPtr
         THEN [s EXCEPT !.out = Append(@, Printed("panic", <<>>, <<>>)), !.exit = Ptr(2)]
         ELSE IF Deref(s.flagHelp)
         THEN PkgSubcommandUsage(s, s.cmds[Deref(s.matchingCmd).name])
         ELSE [s EXCEPT !.ran = Append(@, Call(s.cmds[Deref(s.matchingCmd).name].command, s.args))]
    ELSE s

\* Run(); a nil flagHelp behind a non-nil matchingCmd is a nil dereference
PkgRun(s) ==
    IF s.matchingCmd # NilPtr
    THEN IF s.flagHelp = NilPtr
         THEN [s EXCEPT !.out = Append(@, Printed("panic", <<>>, <<>>)), !.exit = Ptr(2)]
         ELSE IF Deref(s.flagHelp)
         THEN PkgSubcommandUsage(s, Deref(s.matchingCmd))
         ELSE [s EXCEPT !.ran = Append(@, Call(Deref(s.matchingCmd).command, s.args))]
    ELSE s

\* ParseAndRun(); os.Exit inside Parse ends the process before Run
PkgParseAndRun(s, argv) ==
    LET Parsed(p) == IF p.exit # NilPtr THEN p ELSE PkgRun(p)
    IN Parsed(PkgParse(s, argv))

\* the argument vectors a call may read: os.Args is fixed once it was read
ArgvChoices == IF osArgs = NilPtr THEN ArgVectors ELSE {Deref(osArgs)}

\* a behaviour registers before it parses; after Parse only the last of its
\* MaxOn registrations may follow
MayRegister == numOn < MaxOn /\ (osArgs = NilPtr \/ numOn + 1 = MaxOn)

On(r) ==
    /\ rev = "pkg" /\ exit = NilPtr /\ MayRegister
    /\ r \in Registrations
    /\ SetPkg(PkgOn(PkgState, r.name, r.command, r.requiredFlags))
    /\ numOn' = numOn + 1
    /\ UNCHANGED <<rev, osArgs, OtherThanPkg>>

DefineHelp(help) ==
    /\ rev = "pkg" /\ exit = NilPtr /\ MayRegister
    /\ help \in HelpCmds
    /\ SetPkg(PkgDefineHelp(PkgState, help))
    /\ numOn' = numOn + 1
    /\ UNCHANGED <<rev, osArgs, OtherThanPkg>>

Parse(argv) ==
    /\ rev = "pkg" /\ exit = NilPtr
    /\ argv \in ArgvChoices
    /\ osArgs' = Ptr(argv)
    /\ SetPkg(PkgParse(PkgState, argv))
    /\ UNCHANGED <<rev, numOn, OtherThanPkg>>

Run ==
    /\ rev = "pkg" /\ exit = NilPtr /\ Len(ran) + Len(out) < MaxRuns
    /\ SetPkg(PkgRun(PkgState))
    /\ UNCHANGED <<rev, osArgs, numOn, OtherThanPkg>>

ParseAndRun(argv) ==
    /\ rev = "pkg" /\ exit = NilPtr /\ Len(ran) + Len(out) < MaxRuns
    /\ argv \in ArgvChoices
    /\ osArgs' = Ptr(argv)
    /\ SetPkg(PkgParseAndRun(PkgState, argv))
    /\ UNCHANGED <<rev, numOn, OtherThanPkg>>

\* ------------------------------------------- revision "cmdr": unnamed/part_004
\* what a call prints, runs and exits with
World == [out |-> out, ran |-> ran, exit |-> exit, steps |-> steps]

SetWorld(w) ==
    /\ out' = w.out
    /\ ran' = w.ran
    /\ exit' \in ExitStatuses(w.exit)
    /\ steps' = w.steps

Emit(w, p) == [w EXCEPT !.out = Append(@, p)]
\* os.Exit(code)
Exit(w, code) == [w EXCEPT !.exit = Ptr(code)]

\* the Cmd implementations the embedding program registers in revision "cmdr":
\* cmd1 and cmd2 as above, and sub, a Cmd that embeds a Commander
CmdrCmds == {"cmd1", "cmd2", "sub"}

\* cont.command.(Commander)
IsCommander(cmd) == cmd = "sub"

\* the name sub's Flags gives NewCommander
SubName == <<"s", "u", "b">>

\* the On calls sub's Flags makes on its new Commander, in order
SubRegistrations ==
    <<[name |-> nC, command |-> "cmd2", requiredFlags |-> <<>>],
      [name |-> nC1, command |-> "sub", requiredFlags |-> <<>>]>>

\* the calls of On the program makes on the root Commander
CmdrRegistrations ==
    {[name |-> n, command |-> c, requiredFlags |-> r] :
        n \in {nC, nC1}, c \in {"cmd1", "sub"}, r \in RequiredChoices}

\* NewCommander(name, fs)
NewCommander(name, fs) ==
    [name |-> name, flags |-> fs, cmds |-> <<>>, matchingCmd |-> NilPtr,
     matchingFlags |-> NilPtr, flagHelp |-> NilPtr, sub |-> NilPtr]

\* commander.On(name, description, command, requiredFlags)
CmdrOnOp(c, name, command, requiredFlags) ==
    [c EXCEPT !.cmds = (name :> [name |-> name, command |-> command,
                                 requiredFlags |-> requiredFlags]) @@ c.cmds]

RECURSIVE RegisterAll(_, _)
RegisterAll(c, regs) ==
    IF Len(regs) = 0 THEN c
    ELSE RegisterAll(CmdrOnOp(c, regs[1].name, regs[1].command, regs[1].requiredFlags),
                     Tail(regs))

\* cont.command.Flags(fs) in revision "cmdr": the flags the Cmd declares (sub
\* declares those of cmd1), and for sub the Commander its Flags embeds
CmdrFlags(cmd, fs) ==
    IF IsCommander(cmd)
    THEN LET made == CmdFlags("cmd1", fs)
         IN [fs |-> made, sub |-> Ptr(RegisterAll(NewCommander(SubName, made), SubRegistrations))]
    ELSE [fs |-> CmdFlags(cmd, fs), sub |-> NilPtr]

\* commander.SetName(name)
SetName(c, name) == [c EXCEPT !.name = name]

\* parent display name + " " + name
Qualified(parent, name) == parent \o <<" ">> \o name

\* commander.Usage()
CmdrUsage(c, w) ==
    IF Cardinality(DOMAIN c.cmds) = 0
    THEN Emit(w, Printed("UsageOf", c.name, <<>>))
    ELSE Emit(w, Printed("Usage", c.name, SortStrings(DOMAIN c.cmds)))

\* commander.subcommandUsage(cont): [c, w]; Flags is called again, so a Cmd
\* that embeds a Commander gets a new one
CmdrSubcommandUsage(c, w, cont) ==
    LET w1 == Emit(w, Printed("subcommand", c.name, <<cont.name>>))
        f  == CmdrFlags(cont.command, NewFlagSet)
    IN
    IF IsCommander(cont.command)
    THEN LET e == SetName(Deref(f.sub), Qualified(c.name, cont.name))
         IN \* fs.Usage is the new Commander's Usage: print it and return
            [c |-> [c EXCEPT !.sub = Ptr(e)], w |-> CmdrUsage(e, w1)]
    ELSE
    LET w2 == IF Cardinality(DOMAIN f.fs.formal) > 0
              THEN Emit(w1, Printed("subcommandFlags", cont.name, <<>>))
              ELSE w1
        w3 == IF Len(cont.requiredFlags) > 0
              THEN Emit(w2, Printed("requiredFlags", cont.name, cont.requiredFlags))
              ELSE w2
    IN [c |-> c, w |-> w3]

RECURSIVE CmdrParseOp(_, _)
\* commander.Parse(): [c, w]; c.flags has been parsed
CmdrParseOp(c, w) ==
    IF Cardinality(DOMAIN c.cmds) < 1 THEN [c |-> c, w |-> w]
    ELSE IF Len(c.flags.args) < 1 THEN [c |-> c, w |-> Exit(CmdrUsage(c, w), 1)]
    ELSE
    LET name == c.flags.args[1] IN
    IF name \notin DOMAIN c.cmds THEN [c |-> c, w |-> Exit(CmdrUsage(c, w), 1)]
    ELSE
    LET cont == c.cmds[name]
        Parsed(f, p) ==
            LET c1 == [c EXCEPT !.matchingFlags = Ptr(p.fs),
                                !.flagHelp = Ptr(p.fs.bools[fH]),
                                !.sub = IF f.sub = NilPtr THEN NilPtr
                                        ELSE Ptr([Deref(f.sub) EXCEPT !.flags = p.fs])]
                c2 == [c1 EXCEPT !.matchingCmd = Ptr(cont),
                                 !.sub = IF f.sub = NilPtr THEN NilPtr
                                         ELSE Ptr(SetName([Deref(f.sub) EXCEPT !.flags = p.fs],
                                                          Qualified(c.name, name)))]
                Failed(u) == [c |-> u.c, w |-> Exit(u.w, 1)]
                Nested(r) == [c |-> [c2 EXCEPT !.sub = Ptr(r.c)], w |-> r.w]
            IN
            IF p.err # "nil"
            THEN \* ExitOnError; the FlagSet's Usage is the embedded Commander's, if any
                 [c |-> c1,
                  w |-> Exit(IF f.sub # NilPtr THEN CmdrUsage(Deref(c1.sub), w)
                             ELSE Emit(w, Printed("flagUsage", name, <<>>)),
                             ExitOnError(p.err))]
            ELSE IF flagMap(cont.requiredFlags, p.fs) # {}
            THEN Failed(CmdrSubcommandUsage(c2, w, cont))
            ELSE IF f.sub # NilPtr THEN Nested(CmdrParseOp(Deref(c2.sub), w))
            ELSE [c |-> c2, w |-> w]
        Flagged(f) == Parsed(f, FlagParse(Declare(f.fs, fH, "bool"), Tail(c.flags.args)))
    IN Flagged(CmdrFlags(cont.command, NewFlagSet))

RECURSIVE CmdrExecOp(_, _)
\* commander.Exec(), which commander.Run(args) calls: [c, w]
CmdrExecOp(c, w) ==
    IF c.matchingCmd = NilPtr THEN [c |-> c, w |-> w]
    ELSE IF c.flagHelp = NilPtr
    THEN [c |-> c, w |-> Exit(Emit(w, Printed("panic", <<>>, <<>>)), 2)]
    ELSE IF Deref(c.flagHelp) THEN CmdrSubcommandUsage(c, w, Deref(c.matchingCmd))
    ELSE
    LET cont == Deref(c.matchingCmd)
        w1   == [w EXCEPT !.ran = Append(@, Call(cont.command, Deref(c.matchingFlags).args))]
    IN
    IF ~IsCommander(cont.command) THEN [c |-> c, w |-> w1]
    ELSE IF c.sub = NilPtr
    THEN [c |-> c, w |-> Exit(Emit(w1, Printed("panic", <<>>, <<>>)), 2)]
    ELSE LET Nested(r) == [c |-> [c EXCEPT !.sub = Ptr(r.c)], w |-> r.w]
         IN Nested(CmdrExecOp(Deref(c.sub), w1))

\* Exec(cmd, args) up to cmdr.Parse(): the main Cmd's flags parse args[1:],
\* then SetName(args[0]) and Parse()
CmdrMainParse(c, w, argv) ==
    LET Parsed(p) ==
            LET c1 == [c EXCEPT !.flags = p.fs] IN
            IF p.err # "nil"
            THEN [c |-> c1, w |-> Exit(CmdrUsage(c1, w), ExitOnError(p.err))]
            ELSE CmdrParseOp(SetName(c1, Program), w)
    IN Parsed(FlagParse(GlobalFlagSet, argv))

\* Exec(cmd, args)
CmdrMain(c, w, argv) ==
    LET Parsed(p) == IF p.w.exit # NilPtr THEN p ELSE CmdrExecOp(p.c, p.w)
    IN Parsed(CmdrMainParse(c, w, argv))

PkgVars == <<cmds, matchingCmd, args, flagHelp, definedHelp, flagUsage>>

CmdrOn(r) ==
    /\ rev = "cmdr" /\ exit = NilPtr /\ MayRegister
    /\ r \in CmdrRegistrations
    /\ cmdr' = CmdrOnOp(cmdr, r.name, r.command, r.requiredFlags)
    /\ numOn' = numOn + 1
    /\ UNCHANGED <<rev, osArgs, out, ran, exit, steps, commanders, comp, PkgVars>>

CmdrParse(argv) ==
    /\ rev = "cmdr" /\ exit = NilPtr
    /\ argv \in ArgvChoices
    /\ osArgs' = Ptr(argv)
    /\ LET Set(r) == cmdr' = r.c /\ SetWorld(r.w)
       IN Set(CmdrMainParse(cmdr, World, argv))
    /\ UNCHANGED <<rev, numOn, commanders, comp, PkgVars>>

CmdrExec ==
    /\ rev = "cmdr" /\ exit = NilPtr /\ Len(ran) + Len(out) < MaxRuns
    /\ LET Set(r) == cmdr' = r.c /\ SetWorld(r.w)
       IN Set(CmdrExecOp(cmdr, World))
    /\ UNCHANGED <<rev, osArgs, numOn, commanders, comp, PkgVars>>

Exec(argv) ==
    /\ rev = "cmdr" /\ exit = NilPtr /\ Len(ran) + Len(out) < MaxRuns
    /\ argv \in ArgvChoices
    /\ osArgs' = Ptr(argv)
    /\ LET Set(r) == cmdr' = r.c /\ SetWorld(r.w)
       IN Set(CmdrMain(cmdr, World, argv))
    /\ UNCHANGED <<rev, numOn, commanders, comp, PkgVars>>

\* ----------------------------------------- revision "launch": unnamed/part_003
\* the commander objects the program makes with NewCommander()
CommanderIds == {"root", "remote"}

\* the Cmd values the program registers in revision "launch": cmd1 is a
\* Flagger declaring a and b, cmd3 implements Run alone, cmd4 is a Completer,
\* cmd5 a Flagger without flags and a Completer, and the commanders
LaunchCmds == {"cmd1", "cmd3", "cmd4", "cmd5"} \cup CommanderIds

\* cmd.(Commander), cmd.(Flagger), cmd.(Completer)
HasCommander(cmd) == cmd \in CommanderIds
HasFlagger(cmd) == cmd \in {"cmd1", "cmd5"} \cup CommanderIds
HasCompleter(cmd) == cmd \in {"cmd4", "cmd5"} \cup CommanderIds

\* the calls of On the program makes: leaves and remote on root, a leaf and
\* remote itself on remote
LaunchRegistrations ==
    {[on |-> "root", name |-> n, command |-> c] :
        n \in {nC, nC1}, c \in {"cmd1", "cmd3", "remote"}}
    \cup {[on |-> "root", name |-> nC, command |-> c] : c \in {"cmd4", "cmd5"}}
    \cup {[on |-> "remote", name |-> nC, command |-> "cmd3"],
          [on |-> "remote", name |-> nC1, command |-> "remote"]}

\* NewCommander()
NewLaunchCommander == [name |-> <<>>, cmds |-> <<>>]

\* commander.On(name, syntax, description, command)
LaunchOnOp(cs, id, name, command) ==
    [cs EXCEPT ![id].cmds = (name :> [name |-> name, command |-> command]) @@ @]

\* commander.Path(qname)
Path(cs, id, qname) == [cs EXCEPT ![id].name = qname]

\* one step taken on a handler
Step(w, step, cmd) == [w EXCEPT !.steps = Append(@, [step |-> step, cmd |-> cmd])]

\* a variant of commander.Usage that prints the root's usage
LaunchUsageOfRoot(cs, w, id) ==
    Emit(w, Printed("Usage", cs["root"].name, SortStrings(DOMAIN cs["root"].cmds)))

\* commander.Usage(fs)
LaunchUsage(cs, w, id) ==
    Emit(w, Printed("Usage", cs[id].name, SortStrings(DOMAIN cs[id].cmds)))

\* x is a head of y
IsPrefix(x, y) == Len(x) <= Len(y) /\ x = SubSeq(y, 1, Len(x))

\* a variant of getContainer that takes a registered name args[0] is a prefix of
getContainerByPrefix(cs, id, a) ==
    IF Len(a) >= 1 /\ \E n \in DOMAIN cs[id].cmds : IsPrefix(a[1], n)
    THEN Ptr(cs[id].cmds[CHOOSE n \in DOMAIN cs[id].cmds : IsPrefix(a[1], n)])
    ELSE NilPtr

\* commander.getContainer(args): a pointer to the cmdCont, or nil
getContainer(cs, id, a) ==
    IF Len(a) >= 1 /\ a[1] \in DOMAIN cs[id].cmds THEN Ptr(cs[id].cmds[a[1]]) ELSE NilPtr

\* a variant of prepare that looks for a Completer only in a Flagger
prepareNested(cs, w, cmd, name) ==
    LET cs1 == IF HasCommander(cmd) THEN Path(cs, cmd, name) ELSE cs
        w1  == IF HasCommander(cmd) THEN Step(w, "Path", cmd) ELSE w
        fs  == IF HasFlagger(cmd) /\ ~HasCommander(cmd) THEN CmdFlags(cmd, NewFlagSet)
               ELSE NewFlagSet
        w2  == IF HasFlagger(cmd) THEN Step(w1, "Flags", cmd) ELSE w1
        w3  == IF HasFlagger(cmd) /\ HasCompleter(cmd) THEN Step(w2, "Compgens", cmd) ELSE w2
        term == [flags |-> fs,
                 argsgen |-> IF HasCompleter(cmd) /\ HasCommander(cmd) THEN Ptr(cmd) ELSE NilPtr]
    IN [cs |-> cs1, w |-> w3, fs |-> fs, term |-> term]

\* a variant of prepare with a commander whose Compgens leaves the Terminator
\* without its Argsgen
prepareNoArgsgen(cs, w, cmd, name) ==
    LET cs1 == IF HasCommander(cmd) THEN Path(cs, cmd, name) ELSE cs
        w1  == IF HasCommander(cmd) THEN Step(w, "Path", cmd) ELSE w
        fs  == IF HasFlagger(cmd) /\ ~HasCommander(cmd) THEN CmdFlags(cmd, NewFlagSet)
               ELSE NewFlagSet
        w2  == IF HasFlagger(cmd) THEN Step(w1, "Flags", cmd) ELSE w1
        w3  == IF HasCompleter(cmd) THEN Step(w2, "Compgens", cmd) ELSE w2
    IN [cs |-> cs1, w |-> w3, fs |-> fs, term |-> [flags |-> fs, argsgen |-> NilPtr]]

\* prepare(cmd, name): [cs, w, fs, term]
prepare(cs, w, cmd, name) ==
    LET cs1 == IF HasCommander(cmd) THEN Path(cs, cmd, name) ELSE cs
        w1  == IF HasCommander(cmd) THEN Step(w, "Path", cmd) ELSE w
        fs  == IF HasFlagger(cmd) /\ ~HasCommander(cmd) THEN CmdFlags(cmd, NewFlagSet)
               ELSE NewFlagSet
        w2  == IF HasFlagger(cmd) THEN Step(w1, "Flags", cmd) ELSE w1
        w3  == IF HasCompleter(cmd) THEN Step(w2, "Compgens", cmd) ELSE w2
        term == [flags |-> fs,
                 argsgen |-> IF HasCompleter(cmd) /\ HasCommander(cmd) THEN Ptr(cmd) ELSE NilPtr]
    IN [cs |-> cs1, w |-> w3, fs |-> fs, term |-> term]

RECURSIVE LaunchOp(_, _, _, _, _)

\* a variant of commander.Run that calls the matched handler's Run itself
CommanderRunNoLaunch(cs, w, id, a) ==
    LET cont == getContainer(cs, id, a) IN
    IF cont = NilPtr THEN [cs |-> cs, w |-> Exit(LaunchUsage(cs, w, id), 1)]
    ELSE [cs |-> cs, w |-> [w EXCEPT !.ran = Append(@, Call(Deref(cont).command, Tail(a)))]]

\* commander.Run(args) of commander id: [cs, w]
CommanderRun(cs, w, id, a) ==
    LET cont == getContainer(cs, id, a) IN
    IF cont = NilPtr THEN [cs |-> cs, w |-> Exit(LaunchUsage(cs, w, id), 1)]
    ELSE LaunchOp(cs, w, Deref(cont).command,
                  Qualified(cs[id].name, Deref(cont).name), a)

\* a variant of Launch whose flag set parses args, the name included
LaunchOpWholeArgs(cs, w, cmd, name, a) ==
    LET Prepared(pr, p) ==
            LET w1 == Step(pr.w, "Parse", cmd)
                w2 == [w1 EXCEPT !.ran = Append(@, Call(cmd, p.fs.args))]
            IN
            IF p.err # "nil"
            THEN [cs |-> pr.cs,
                  w |-> Exit(IF HasCommander(cmd) THEN LaunchUsage(pr.cs, w1, cmd)
                             ELSE Emit(w1, Printed("flagUsage", name, <<>>)),
                             ExitOnError(p.err))]
            ELSE IF ~HasCommander(cmd) THEN [cs |-> pr.cs, w |-> w2]
            ELSE CommanderRun(pr.cs, w2, cmd, p.fs.args)
        Flagged(pr) == Prepared(pr, FlagParse(pr.fs, a))
    IN Flagged(prepare(cs, w, cmd, name))

\* Launch(cmd, name, args): [cs, w]; a commander's Run is commander.Run
LaunchOp(cs, w, cmd, name, a) ==
    LET Prepared(pr, p) ==
            LET w1 == Step(pr.w, "Parse", cmd)
                w2 == [w1 EXCEPT !.ran = Append(@, Call(cmd, p.fs.args))]
            IN
            IF p.err # "nil"
            THEN \* ExitOnError; a commander's Flags sets fs.Usage to its Usage
                 [cs |-> pr.cs,
                  w |-> Exit(IF HasCommander(cmd) THEN LaunchUsage(pr.cs, w1, cmd)
                             ELSE Emit(w1, Printed("flagUsage", name, <<>>)),
                             ExitOnError(p.err))]
            ELSE IF ~HasCommander(cmd) THEN [cs |-> pr.cs, w |-> w2]
            ELSE CommanderRun(pr.cs, w2, cmd, p.fs.args)
        Flagged(pr) == Prepared(pr, FlagParse(pr.fs, Tail(a)))
    IN Flagged(prepare(cs, w, cmd, name))

\* compgen.Prefix(args, inword): the position of the word being completed and
\* what is typed of it
Prefix(a, inword) ==
    IF inword THEN [pos |-> Len(a) - 1, prefix |-> a[Len(a)]]
    ELSE [pos |-> Len(a), prefix |-> <<>>]

\* compgen.ValueGen(vals)(prefix): the values that start with prefix
ValueGen(vals, prefix) == {v \in vals : IsPrefix(prefix, v)}

\* what Compgen returns: the candidates come from commander or handler of; a
\* value list is kept as the set vals until the order of the range is drawn
Candidates(cs, w, kind, of, vals, list) ==
    [cs |-> cs, w |-> w, kind |-> kind, of |-> of, vals |-> vals, comp |-> list, err |-> "nil"]

RECURSIVE CompgenOp(_, _, _, _, _)

\* term.Compgen(args, inword) on the Terminator prepare built for cmd: the
\* tokens after the command's name and the cursor go to the Argsgen given to
\* the Terminator, if any, else the surface answers for itself
TermCompgen(cs, w, cmd, term, a, inword) ==
    IF term.argsgen # NilPtr
    THEN CompgenOp(cs, w, Deref(term.argsgen), Tail(a), inword)
    ELSE Candidates(cs, w, "surface", cmd, {},
                    <<[flags |-> DOMAIN term.flags.formal, args |-> Tail(a), inword |-> inword]>>)

\* a variant of commander.Compgen that offers every registered name
CompgenOpUnfiltered(cs, w, id, a, inword) ==
    LET Completing(pp) ==
            IF pp.pos = 0
            THEN Candidates(cs, w, "values", id, DOMAIN cs[id].cmds, <<>>)
            ELSE
            LET cont == getContainer(cs, id, a)
                Prepared(pr) == TermCompgen(pr.cs, pr.w, Deref(cont).command, pr.term, a, inword)
            IN IF cont = NilPtr THEN Candidates(cs, w, "nil", id, {}, <<>>)
               ELSE Prepared(prepare(cs, w, Deref(cont).command,
                                     Qualified(cs[id].name, Deref(cont).name)))
    IN Completing(Prefix(a, inword))

\* a variant of commander.Compgen that treats a miss as commander.Run does
CompgenOpUsageOnMiss(cs, w, id, a, inword) ==
    LET Completing(pp) ==
            IF pp.pos = 0
            THEN Candidates(cs, w, "values", id, ValueGen(DOMAIN cs[id].cmds, pp.prefix), <<>>)
            ELSE
            LET cont == getContainer(cs, id, a)
                Prepared(pr) == TermCompgen(pr.cs, pr.w, Deref(cont).command, pr.term, a, inword)
            IN IF cont = NilPtr
               THEN Candidates(cs, Exit(LaunchUsage(cs, w, id), 1), "nil", id, {}, <<>>)
               ELSE Prepared(prepare(cs, w, Deref(cont).command,
                                     Qualified(cs[id].name, Deref(cont).name)))
    IN Completing(Prefix(a, inword))

\* a variant of commander.Compgen that parses the tokens after the name with
\* the matched handler's flag set, as Launch does
CompgenOpParsing(cs, w, id, a, inword) ==
    LET Completing(pp) ==
            IF pp.pos = 0
            THEN Candidates(cs, w, "values", id, ValueGen(DOMAIN cs[id].cmds, pp.prefix), <<>>)
            ELSE
            LET cont == getContainer(cs, id, a)
                Parsed(pr, p) ==
                    IF p.err # "nil"
                    THEN Candidates(pr.cs, Exit(Step(pr.w, "Parse", Deref(cont).command),
                                                ExitOnError(p.err)), "nil", id, {}, <<>>)
                    ELSE TermCompgen(pr.cs, Step(pr.w, "Parse", Deref(cont).command),
                                     Deref(cont).command, pr.term, a, inword)
                Prepared(pr) == Parsed(pr, FlagParse(pr.fs, Tail(a)))
            IN IF cont = NilPtr THEN Candidates(cs, w, "nil", id, {}, <<>>)
               ELSE Prepared(prepare(cs, w, Deref(cont).command,
                                     Qualified(cs[id].name, Deref(cont).name)))
    IN Completing(Prefix(a, inword))

\* a variant of commander.Compgen that names the matched handler without the
\* commander's own name
CompgenOpBareName(cs, w, id, a, inword) ==
    LET Completing(pp) ==
            IF pp.pos = 0
            THEN Candidates(cs, w, "values", id, ValueGen(DOMAIN cs[id].cmds, pp.prefix), <<>>)
            ELSE
            LET cont == getContainer(cs, id, a)
                Prepared(pr) == TermCompgen(pr.cs, pr.w, Deref(cont).command, pr.term, a, inword)
            IN IF cont = NilPtr THEN Candidates(cs, w, "nil", id, {}, <<>>)
               ELSE Prepared(prepare(cs, w, Deref(cont).command, Deref(cont).name))
    IN Completing(Prefix(a, inword))

\* commander.Compgen(args, inword) of commander id
CompgenOp(cs, w, id, a, inword) ==
    LET Completing(pp) ==
            IF pp.pos = 0
            THEN Candidates(cs, w, "values", id, ValueGen(DOMAIN cs[id].cmds, pp.prefix), <<>>)
            ELSE
            LET cont == getContainer(cs, id, a)
                Prepared(pr) == TermCompgen(pr.cs, pr.w, Deref(cont).command, pr.term, a, inword)
            IN IF cont = NilPtr THEN Candidates(cs, w, "nil", id, {}, <<>>)
               ELSE Prepared(prepare(cs, w, Deref(cont).command,
                                     Qualified(cs[id].name, Deref(cont).name)))
    IN Completing(Prefix(a, inword))

CmdrVars == <<cmdr>>

LaunchOn(r) ==
    /\ rev = "launch" /\ exit = NilPtr /\ steps = <<>> /\ comp = NilPtr /\ numOn < MaxOn
    /\ r \in LaunchRegistrations
    /\ commanders' = LaunchOnOp(commanders, r.on, r.name, r.command)
    /\ numOn' = numOn + 1
    /\ UNCHANGED <<rev, osArgs, out, ran, exit, steps, comp, CmdrVars, PkgVars>>

\* Launch(root, os.Args[0], os.Args), the last statement of main; a process
\* that was asked for completions does not dispatch
Launch(argv) ==
    /\ rev = "launch" /\ exit = NilPtr /\ steps = <<>> /\ comp = NilPtr
    /\ argv \in ArgvChoices
    /\ osArgs' = Ptr(argv)
    /\ LET Set(r) == commanders' = r.cs /\ SetWorld(r.w)
       IN Set(LaunchOp(commanders, World, "root", Program, <<Program>> \o argv))
    /\ UNCHANGED <<rev, numOn, comp, CmdrVars, PkgVars>>

\* the orders a range over a map may visit the keys in
Orderings(keys) ==
    {s \in [1..Cardinality(keys) -> keys] : \A k \in keys : \E i \in DOMAIN s : s[i] = k}

\* root.Compgen(args, inword), the entry point of shell completion; the cursor
\* is inside a word only when there is a word
\* the tokens of a command line that is being completed: names and options;
\* Compgen reads a token only to look it up as a name and hands the rest on.
\* Completion is asked for lines of fewer than MaxArgs tokens.
CompTokens == {nC, nC1, tA, tB}

Compgen(argv, inword) ==
    /\ rev = "launch" /\ exit = NilPtr /\ steps = <<>> /\ comp = NilPtr
    /\ argv \in ArgvChoices
    /\ Len(argv) < MaxArgs /\ \A i \in 1..Len(argv) : argv[i] \in CompTokens
    /\ inword \in BOOLEAN /\ (inword => Len(argv) >= 1)
    /\ osArgs' = Ptr(argv)
    /\ LET Set(r) ==
               /\ commanders' = r.cs /\ SetWorld(r.w)
               /\ \E order \in Orderings(r.vals) :
                      comp' = Ptr([args |-> argv, inword |-> inword, of |-> r.of,
                                   comp |-> IF r.kind = "values" THEN order ELSE r.comp,
                                   err |-> r.err])
       IN Set(CompgenOp(commanders, World, "root", argv, inword))
    /\ UNCHANGED <<rev, numOn, CmdrVars, PkgVars>>

Init ==
    /\ rev \in {"pkg", "cmdr", "launch"}
    /\ osArgs = NilPtr
    /\ cmds = <<>>
    /\ matchingCmd = NilPtr
    /\ args = <<>>
    /\ flagHelp = NilPtr
    /\ definedHelp = Nil
    /\ flagUsage = [kind |-> "default", cmd |-> Nil]
    /\ numOn = 0
    /\ out = <<>>
    /\ ran = <<>>
    /\ exit = NilPtr
    /\ cmdr = NewCommander(Program, GlobalFlagSet)
    /\ commanders = [id \in CommanderIds |-> NewLaunchCommander]
    /\ steps = <<>>
    /\ comp = NilPtr

Next ==
    \/ \E r \in Registrations : On(r)
    \/ \E help \in HelpCmds : DefineHelp(help)
    \/ \E argv \in ArgvChoices : Parse(argv)
    \/ Run
    \/ \E argv \in ArgvChoices : ParseAndRun(argv)
    \/ \E r \in CmdrRegistrations : CmdrOn(r)
    \/ \E argv \in ArgvChoices : CmdrParse(argv)
    \/ CmdrExec
    \/ \E argv \in ArgvChoices : Exec(argv)
    \/ \E r \in LaunchRegistrations : LaunchOn(r)
    \/ \E argv \in ArgvChoices : Launch(argv)
    \/ \E argv \in ArgvChoices, inword \in BOOLEAN : Compgen(argv, inword)

Spec == Init /\ [][Next]_vars

\* ================================================================ properties
\* x is the tail of y
IsSuffix(x, y) == Len(x) <= Len(y) /\ x = SubSeq(y, Len(y) - Len(x) + 1, Len(y))

\* the elements of the sequence s
Range(s) == {s[i] : i \in 1..Len(s)}

\* what flag.CommandLine makes of argv: its error and the positional tokens
Global(argv) == FlagParse(GlobalFlagSet, argv)

\* what the flag set of a "pkg" command (its own flags and h) makes of rest
Sub(command, rest) == FlagParse(Declare(CmdFlags(command, NewFlagSet), fH, "bool"), rest)

\* what the flag set Launch prepares for cmd makes of rest
LaunchSub(cmd, rest) ==
    FlagParse(IF HasFlagger(cmd) /\ ~HasCommander(cmd) THEN CmdFlags(cmd, NewFlagSet)
              ELSE NewFlagSet, rest)

\* argv is [global options..., N, rest...] with N registered in mapping
HasForm(g, mapping) == g.err = "nil" /\ Len(g.fs.args) >= 1 /\ g.fs.args[1] \in DOMAIN mapping

\* ------------------------------------------------------------------------ C1
\* C1 as claimed: for every registered name N and every argument vector
\* [global options..., N, rest...], Parse followed by Run invokes exactly the
\* handler registered under N, with the tokens of rest its flag set did not
\* consume; under Launch the handler under N is the one handler the root invokes.
C1_EveryVector ==
    [][osArgs' # NilPtr =>
        LET argv == Deref(osArgs')
            PkgCase(g) ==
                HasForm(g, cmds) =>
                    LET Case(cont, u) == ran' = Append(ran, Call(cont.command, u.fs.args))
                    IN Case(cmds[g.fs.args[1]],
                            Sub(cmds[g.fs.args[1]].command, Tail(g.fs.args)))
            LaunchCase(cont, u) ==
                /\ Len(ran') >= 2
                /\ ran'[2] = Call(cont.command, u.fs.args)
                /\ ~HasCommander(cont.command) => Len(ran') = 2
        IN /\ ParseAndRun(argv) => PkgCase(Global(argv))
           /\ (Launch(argv) /\ argv # <<>> /\ argv[1] \in DOMAIN commanders["root"].cmds) =>
                  LaunchCase(commanders["root"].cmds[argv[1]],
                             LaunchSub(commanders["root"].cmds[argv[1]].command, Tail(argv)))
    ]_vars

\* C1, amended: for every registered name N and every argument vector
\* [global options..., N, rest...], if rest parses under N's flag set, every
\* required option of N is among the options supplied and -h is not set, then
\* Parse followed by Run invokes the handler registered under N exactly once,
\* and no other, with the tokens of rest the flag set did not consume, which
\* are a tail of rest in the original order, and nothing is printed; otherwise
\* no handler is invoked.  Under Launch the handler under N is the first
\* handler the root invokes when rest parses, and the only one unless it is a
\* Commander; when rest does not parse the root invokes none.
C1_ValidVector ==
    [][osArgs' # NilPtr =>
        LET argv == Deref(osArgs')
            PkgCase(g) ==
                (HasForm(g, cmds) /\ ParseAndRun(argv)) =>
                    LET Case(cont, u) ==
                            IF /\ u.err = "nil"
                               /\ Range(cont.requiredFlags) \subseteq u.fs.actual
                               /\ ~u.fs.bools[fH]
                            THEN /\ ran' = Append(ran, Call(cont.command, u.fs.args))
                                 /\ IsSuffix(u.fs.args, Tail(g.fs.args))
                                 /\ out' = out
                                 /\ exit' = NilPtr
                            ELSE ran' = ran /\ out' # out
                    IN Case(cmds[g.fs.args[1]],
                            Sub(cmds[g.fs.args[1]].command, Tail(g.fs.args)))
            LaunchCase(cont, u) ==
                IF u.err = "nil"
                THEN /\ Len(ran') >= 2
                     /\ ran'[1] = Call("root", argv)
                     /\ ran'[2] = Call(cont.command, u.fs.args)
                     /\ IsSuffix(u.fs.args, Tail(argv))
                     /\ ~HasCommander(cont.command) =>
                            Len(ran') = 2 /\ out' = out /\ exit' = NilPtr
                ELSE ran' = <<Call("root", argv)>> /\ exit' # NilPtr
        IN /\ rev = "pkg" => PkgCase(Global(argv))
           /\ (argv # <<>> /\ argv[1] \in DOMAIN commanders["root"].cmds /\ Launch(argv)) =>
                  LaunchCase(commanders["root"].cmds[argv[1]],
                             LaunchSub(commanders["root"].cmds[argv[1]].command, Tail(argv)))
    ]_vars

\* a command with flags ran on the one token its options left over
C1_Witness ==
    /\ rev = "pkg" /\ osArgs = Ptr(<<nC, tA1, nC1>>) /\ exit = NilPtr
    /\ ran = <<Call("cmd1", <<nC1>>)>>

\* ------------------------------------------------------------------------ C2
\* the vector v is empty or its first token is no name of mapping
NoMatch(v, mapping) == Len(v) = 0 \/ v[1] \notin DOMAIN mapping

\* C2 as claimed: for every state of the command mapping, resolving a vector
\* (the tokens left after the Commander's own options) that is empty or whose
\* first token is not a registered name invokes no handler, prints usage and
\* exits with a non-zero status.
C2_EveryMapping ==
    [][osArgs' # NilPtr =>
        LET argv == Deref(osArgs')
            PkgCase(g) ==
                (g.err = "nil" /\ NoMatch(g.fs.args, cmds)) =>
                    /\ ran' = ran
                    /\ Len(out') = Len(out) + 1
                    /\ exit' \notin {NilPtr, Ptr(0)}
            LaunchCase(g) ==
                (g.err = "nil" /\ NoMatch(g.fs.args, commanders["root"].cmds)) =>
                    /\ ran' = <<Call("root", g.fs.args)>>
                    /\ Len(out') = Len(out) + 1
                    /\ exit' \notin {NilPtr, Ptr(0)}
        IN /\ (Parse(argv) \/ ParseAndRun(argv)) => PkgCase(Global(argv))
           /\ Launch(argv) => LaunchCase(LaunchSub("root", argv))
    ]_vars

\* C2, amended: resolving a vector that is empty or whose first token is not
\* exactly a registered name (a registered name it is a prefix of, or that is
\* a prefix of it, does not count) invokes no handler; with at least one
\* command registered the Commander's usage, listing the registered names in
\* order, is printed and the process exits with status 1; the root of
\* part_003 does so for the empty mapping too, while Parse of command.go,
\* with no command registered, returns without printing or exiting.
C2_NoMatch ==
    [][osArgs' # NilPtr =>
        LET argv == Deref(osArgs')
            PkgCase(g) ==
                (g.err = "nil" /\ NoMatch(g.fs.args, cmds)
                    /\ (Parse(argv) \/ ParseAndRun(argv))) =>
                    IF DOMAIN cmds = {}
                    THEN ran' = ran /\ out' = out /\ exit' = NilPtr
                    ELSE /\ ran' = ran
                         /\ out' = Append(out, Printed("Usage", Program,
                                                        SortStrings(DOMAIN cmds)))
                         /\ exit' = Ptr(1)
            LaunchCase(g) ==
                (g.err = "nil" /\ NoMatch(g.fs.args, commanders["root"].cmds)
                    /\ Launch(argv)) =>
                    /\ ran' = <<Call("root", g.fs.args)>>
                    /\ out' = <<Printed("Usage", Program,
                                         SortStrings(DOMAIN commanders["root"].cmds))>>
                    /\ exit' = Ptr(1)
        IN /\ rev = "pkg" => PkgCase(Global(argv))
           /\ rev = "launch" => LaunchCase(LaunchSub("root", argv))
    ]_vars

\* c was resolved with only c1 registered: usage, exit 1, nothing ran
C2_Witness ==
    /\ rev = "pkg" /\ osArgs = Ptr(<<nC>>) /\ DOMAIN cmds = {nC1}
    /\ ran = <<>> /\ exit = Ptr(1)
    /\ out = <<Printed("Usage", Program, <<nC1>>)>>

\* ------------------------------------------------------------------------ C3
RECURSIVE Supplied(_)
\* the options the tokens of rest supply to a command that declares the value
\* option a and the switches b and h, read off the tokens: --a=1 supplies a,
\* -a supplies a with the next token as its value, -b supplies b, and the
\* first token that is neither an option nor an option's value ends the options
Supplied(rest) ==
    IF Len(rest) = 0 THEN {}
    ELSE CASE rest[1] = tA1 -> {fA} \cup Supplied(Tail(rest))
           [] rest[1] = tA  -> IF Len(rest) >= 2 THEN {fA} \cup Supplied(Tail(Tail(rest)))
                               ELSE {}
           [] rest[1] = tB  -> {fB} \cup Supplied(Tail(rest))
           [] rest[1] = tH  -> Supplied(Tail(rest))
           [] OTHER -> {}

RECURSIVE WellFormed(_)
\* every -a among the options of rest has a token after it for its value
WellFormed(rest) ==
    IF Len(rest) = 0 THEN TRUE
    ELSE CASE rest[1] \in {tA1, tB, tH} -> WellFormed(Tail(rest))
           [] rest[1] = tA -> Len(rest) >= 2 /\ WellFormed(Tail(Tail(rest)))
           [] OTHER -> TRUE

\* C3: for a command registered with the required options a and b, Parse
\* leaves the handler runnable (the command matched, the process not exited)
\* exactly when both a and b are among the options supplied after the command
\* name, whatever their order and values; with neither, only a or only b the
\* process exits with a non-zero status and no handler runs, as it does when
\* an option lacks its value.  A Cmd of
\* part_004 that embeds a Commander passes the check on the same condition
\* and then resolves the remaining tokens itself.
C3_RequiredBoth ==
    [][osArgs' # NilPtr =>
        LET argv == Deref(osArgs')
            Failure == exit' \notin {NilPtr, Ptr(0)} /\ ran' = ran
            PkgCase(g) ==
                (HasForm(g, cmds) /\ cmds[g.fs.args[1]].requiredFlags = <<fA, fB>>
                    /\ Parse(argv)) =>
                    IF {fA, fB} \subseteq Supplied(Tail(g.fs.args)) /\ WellFormed(Tail(g.fs.args))
                    THEN exit' = NilPtr /\ matchingCmd' = Ptr(cmds[g.fs.args[1]])
                    ELSE Failure
            CmdrCase(g) ==
                (HasForm(g, cmdr.cmds) /\ cmdr.cmds[g.fs.args[1]].requiredFlags = <<fA, fB>>
                    /\ CmdrParse(argv)) =>
                    IF {fA, fB} \subseteq Supplied(Tail(g.fs.args)) /\ WellFormed(Tail(g.fs.args))
                    THEN /\ cmdr'.matchingCmd = Ptr(cmdr.cmds[g.fs.args[1]])
                         /\ \A i \in (Len(out) + 1)..Len(out') : out'[i].kind # "subcommand"
                         /\ ~IsCommander(cmdr.cmds[g.fs.args[1]].command) => exit' = NilPtr
                    ELSE Failure
        IN /\ rev = "pkg" => PkgCase(Global(argv))
           /\ rev = "cmdr" => CmdrCase(Global(argv))
    ]_vars

\* both required options were supplied, b before a, and the handler ran
C3_Witness ==
    /\ rev = "pkg" /\ osArgs = Ptr(<<nC, tB, tA1>>) /\ exit = NilPtr
    /\ matchingCmd # NilPtr /\ Deref(matchingCmd).requiredFlags = <<fA, fB>>
    /\ ran = <<Call("cmd1", <<>>)>>

\* ------------------------------------------------------------------------ C4
\* mapping with the record rec put under name, replacing the one it had
Replaced(mapping, name, rec) ==
    [n \in DOMAIN mapping \cup {name} |-> IF n = name THEN rec ELSE mapping[n]]

\* C4: On puts its record under the name, replacing the record the name had
\* and leaving every other record alone, so that the mapping holds one record
\* for the name, that of the last On; it prints nothing, does not exit and
\* runs nothing.  Resolving [N, ...] then invokes the handler of the record
\* the mapping holds for N, hence that of the last On under N, and no other
\* handler of the mapping.
C4_LastWins ==
    [][/\ \A r \in Registrations :
              (rev = "pkg" /\ numOn' # numOn /\ On(r)) =>
                 /\ cmds' = Replaced(cmds, r.name, [name |-> r.name, command |-> r.command,
                                                     requiredFlags |-> r.requiredFlags])
                 /\ out' = out /\ ran' = ran /\ exit' = NilPtr
       /\ \A r \in LaunchRegistrations :
              (rev = "launch" /\ numOn' # numOn /\ LaunchOn(r)) =>
                 /\ commanders'[r.on].cmds =
                        Replaced(commanders[r.on].cmds, r.name,
                                 [name |-> r.name, command |-> r.command])
                 /\ \A id \in CommanderIds \ {r.on} : commanders'[id] = commanders[id]
                 /\ out' = out /\ ran' = ran /\ exit' = NilPtr
       /\ osArgs' # NilPtr =>
              LET argv == Deref(osArgs')
                  PkgCase(g) ==
                      (HasForm(g, cmds) /\ ParseAndRun(argv)) =>
                          \A i \in (Len(ran) + 1)..Len(ran') :
                              ran'[i].cmd = cmds[g.fs.args[1]].command
              IN /\ (rev = "pkg" /\ ran' # ran) => PkgCase(Global(argv))
                 /\ (argv # <<>> /\ Len(ran') >= 2 /\ Launch(argv)) =>
                        /\ argv[1] \in DOMAIN commanders["root"].cmds
                        /\ ran'[2].cmd = commanders["root"].cmds[argv[1]].command
    ]_vars

\* On was called twice under c, the mapping holds one record, and its handler
\* is the one that ran
C4_Witness ==
    /\ rev = "pkg" /\ numOn = 2 /\ definedHelp = Nil
    /\ DOMAIN cmds = {nC} /\ cmds[nC].command = "cmd2"
    /\ osArgs = Ptr(<<nC>>) /\ ran = <<Call("cmd2", <<>>)>> /\ exit = NilPtr

\* ------------------------------------------------------------------------ C5
\* the token is an option as the flag package sees it
IsOption(token) == Len(token) >= 2 /\ token[1] = "-"

\* the commands the Commander embedded in sub holds
SubCmds == RegisterAll(NewCommander(SubName, NewFlagSet), SubRegistrations).cmds

RECURSIVE LaunchLeaf(_, _, _)
\* the leaf the names at the head of v lead to from commander id, with the
\* tokens after the names, or nil when a name matches nothing or an option
\* follows a name
LaunchLeaf(cs, id, v) ==
    IF NoMatch(v, cs[id].cmds) \/ (Len(v) >= 2 /\ IsOption(v[2])) THEN NilPtr
    ELSE IF HasCommander(cs[id].cmds[v[1]].command)
    THEN LaunchLeaf(cs, cs[id].cmds[v[1]].command, Tail(v))
    ELSE Ptr(Call(cs[id].cmds[v[1]].command, Tail(v)))

RECURSIVE CmdrLeaf(_, _)
\* the same from a mapping of part_004, along records without required flags
CmdrLeaf(mapping, v) ==
    IF NoMatch(v, mapping) \/ (Len(v) >= 2 /\ IsOption(v[2])) THEN NilPtr
    ELSE IF mapping[v[1]].requiredFlags # <<>> THEN NilPtr
    ELSE IF IsCommander(mapping[v[1]].command) THEN CmdrLeaf(SubCmds, Tail(v))
    ELSE Ptr(Call(mapping[v[1]].command, Tail(v)))

\* the calls form a chain of Commanders that ends in the one call leaf
ChainTo(calls, leaf, IsNested(_)) ==
    /\ Len(calls) >= 1
    /\ calls[Len(calls)] = leaf
    /\ \A i \in 1..(Len(calls) - 1) : IsNested(calls[i].cmd)

\* C5: for the vector [n1, ..., nd, p...] whose names lead through nested
\* Commanders to a handler that is not a Commander, resolution runs the
\* Commanders on the way, each on the tokens after its own name, and then
\* that one leaf handler, exactly once, with exactly p; nothing is printed and
\* the process does not exit.  With d = 1 the handler runs at once with the
\* tokens after its name.
C5_NestedLeaf ==
    [][osArgs' # NilPtr =>
        LET argv == Deref(osArgs')
            LaunchCase(leaf) ==
                (leaf # NilPtr /\ Launch(argv)) =>
                    /\ ChainTo(ran', Deref(leaf), HasCommander)
                    /\ \A i \in 1..(Len(ran') - 1) :
                           ran'[i].args = SubSeq(argv, i, Len(argv))
                    /\ out' = out /\ exit' = NilPtr
            CmdrCase(leaf) ==
                (leaf # NilPtr /\ Exec(argv)) =>
                    /\ IsPrefix(ran, ran')
                    /\ ChainTo(SubSeq(ran', Len(ran) + 1, Len(ran')), Deref(leaf), IsCommander)
                    /\ \A i \in 1..(Len(ran') - Len(ran) - 1) :
                           ran'[Len(ran) + i].args = SubSeq(argv, i + 1, Len(argv))
                    /\ out' = out /\ exit' = NilPtr
        IN /\ rev = "launch" => LaunchCase(LaunchLeaf(commanders, "root", argv))
           /\ (rev = "cmdr" /\ ~(argv # <<>> /\ IsOption(argv[1]))) =>
                  CmdrCase(CmdrLeaf(cmdr.cmds, argv))
    ]_vars

\* [c, c, c1] went through root and remote and ran cmd3 with [c1]
C5_Witness ==
    /\ rev = "launch" /\ osArgs = Ptr(<<nC, nC, nC1>>) /\ exit = NilPtr
    /\ ran = <<Call("root", <<nC, nC, nC1>>), Call("remote", <<nC, nC1>>),
                Call("cmd3", <<nC1>>)>>

\* ------------------------------------------------------------------------ C6
\* the vector v names a nested Commander and goes on with no token, or with a
\* token that is no option and no name of nested
FailsNested(v, nested) ==
    /\ Len(v) >= 1
    /\ NoMatch(Tail(v), nested)
    /\ Len(v) >= 2 => ~IsOption(v[2])

\* C6: when the first token matches a nested Commander and the second token
\* is absent or matches none of its sub-commands, the usage printed is the
\* nested Commander's, headed by the root's name, a blank and the matched
\* name and listing the nested Commander's sub-commands in order; the root's
\* usage is not printed, no handler other than the Commanders on the way is
\* run (in part_004 none at all), and the process exits with status 1.
C6_NestedUsage ==
    [][osArgs' # NilPtr =>
        LET argv == Deref(osArgs')
            LaunchCase(cont) ==
                (HasCommander(cont.command) /\ FailsNested(argv, commanders[cont.command].cmds)
                    /\ Launch(argv)) =>
                    /\ out' = <<Printed("Usage", Qualified(Program, cont.name),
                                         SortStrings(DOMAIN commanders[cont.command].cmds))>>
                    /\ ran' = <<Call("root", argv), Call(cont.command, Tail(argv))>>
                    /\ exit' = Ptr(1)
            CmdrCase(cont) ==
                (/\ IsCommander(cont.command) /\ cont.requiredFlags = <<>>
                 /\ FailsNested(argv, SubCmds)
                 /\ (CmdrParse(argv) \/ Exec(argv))) =>
                    /\ out' = Append(out, Printed("Usage", Qualified(Program, cont.name),
                                                   SortStrings(DOMAIN SubCmds)))
                    /\ ran' = ran
                    /\ exit' = Ptr(1)
        IN /\ (rev = "launch" /\ ~NoMatch(argv, commanders["root"].cmds)) =>
                  LaunchCase(commanders["root"].cmds[argv[1]])
           /\ (rev = "cmdr" /\ ~NoMatch(argv, cmdr.cmds)) =>
                  CmdrCase(cmdr.cmds[argv[1]])
    ]_vars

\* [c, c1] matched remote under c, c1 matched nothing in remote: remote's
\* usage, exit 1
C6_Witness ==
    /\ rev = "launch" /\ osArgs = Ptr(<<nC, nC1>>) /\ exit = Ptr(1)
    /\ out = <<Printed("Usage", <<"p", " ", "c">>, <<nC>>)>>
    /\ ran = <<Call("root", <<nC, nC1>>), Call("remote", <<nC1>>)>>

\* ------------------------------------------------------------------------ C7
\* the record cont declares required options and the well-formed tokens of
\* rest leave one of them out
MissesRequired(cont, rest) ==
    /\ cont.requiredFlags # <<>>
    /\ WellFormed(rest)
    /\ ~(Range(cont.requiredFlags) \subseteq Supplied(rest))

\* C7: when a matched command has a required option that was not supplied,
\* the matched subcommand's own usage is printed, with the list of its
\* required option names, and not the top-level usage; the handler's Run is
\* not invoked and the process exits with a non-zero status.
C7_RequiredListed ==
    [][osArgs' # NilPtr =>
        LET argv == Deref(osArgs')
            PkgCase(g) ==
                (HasForm(g, cmds) /\ MissesRequired(cmds[g.fs.args[1]], Tail(g.fs.args))) =>
                    /\ out' = Append(out, Printed("subcommandUsage", g.fs.args[1],
                                                   cmds[g.fs.args[1]].requiredFlags))
                    /\ ran' = ran
                    /\ exit' \notin {NilPtr, Ptr(0)}
            CmdrCase(g) ==
                (HasForm(g, cmdr.cmds)
                 /\ MissesRequired(cmdr.cmds[g.fs.args[1]], Tail(g.fs.args))) =>
                    /\ Len(out') > Len(out)
                    /\ out'[Len(out) + 1] = Printed("subcommand", Program, <<g.fs.args[1]>>)
                    /\ \E i \in (Len(out) + 1)..Len(out') :
                           out'[i] = Printed("requiredFlags", g.fs.args[1],
                                             cmdr.cmds[g.fs.args[1]].requiredFlags)
                    /\ \A i \in (Len(out) + 1)..Len(out') :
                           ~(out'[i].kind \in {"Usage", "UsageOf"} /\ out'[i].name = Program)
                    /\ ran' = ran
                    /\ exit' \notin {NilPtr, Ptr(0)}
        IN /\ (Parse(argv) \/ ParseAndRun(argv)) => PkgCase(Global(argv))
           /\ (CmdrParse(argv) \/ Exec(argv)) => CmdrCase(Global(argv))
    ]_vars

\* a Cmd that embeds a Commander was registered under c1 with the required
\* options a and b and resolved with neither
C7_Witness ==
    /\ rev = "cmdr" /\ osArgs = Ptr(<<nC1>>) /\ exit = Ptr(1) /\ ran = <<>>
    /\ cmdr.matchingCmd = Ptr([name |-> nC1, command |-> "sub", requiredFlags |-> <<fA, fB>>])
    /\ Len(out) = 2
    /\ out[1] = Printed("subcommand", Program, <<nC1>>)

RECURSIVE HelpGiven(_, _)
\* -h is set by the tokens rest that follow the name of a command: it occurs
\* among the options, before the first positional token and not as the value
\* of cmd1's or sub's value option -a
HelpGiven(command, rest) ==
    IF Len(rest) = 0 THEN FALSE
    ELSE CASE rest[1] = tH -> TRUE
           [] rest[1] = tA /\ command # "cmd2" ->
                  Len(rest) >= 2 /\ HelpGiven(command, Tail(Tail(rest)))
           [] rest[1] \in {tA, tA1, tB} -> HelpGiven(command, Tail(rest))
           [] OTHER -> FALSE

\* C9: after a Parse that matched command N, Run (and the Run half of
\* ParseAndRun, and Exec of part_004) invokes N's handler, with the arguments
\* Parse left, exactly when -h was not set among the options after N; when -h
\* was set, Parse having passed the check of the required options, it prints
\* N's subcommand usage, does not exit and invokes no handler.
C9_HelpOrRun ==
    [][/\ (osArgs' # NilPtr /\ rev = "pkg" /\ matchingCmd' # NilPtr /\ exit' = NilPtr
            /\ (Run \/ ParseAndRun(Deref(osArgs')))) =>
              LET cont == Deref(matchingCmd')
                  Case(g) ==
                      IF HelpGiven(cont.command, Tail(g.fs.args))
                      THEN /\ ran' = ran
                           /\ out' = Append(out, Printed("subcommandUsage", cont.name,
                                                         cont.requiredFlags))
                      ELSE /\ ran' = Append(ran, Call(cont.command, args'))
                           /\ out' = out
              IN /\ cont.name = Global(Deref(osArgs')).fs.args[1]
                 /\ Case(Global(Deref(osArgs')))
       /\ (Run /\ matchingCmd # NilPtr) => exit' = NilPtr
       /\ (rev = "cmdr" /\ CmdrExec /\ cmdr.matchingCmd # NilPtr) =>
              LET cont == Deref(cmdr.matchingCmd)
                  Case(g) ==
                      IF HelpGiven(cont.command, Tail(g.fs.args))
                      THEN /\ ran' = ran
                           /\ Len(out') > Len(out)
                           /\ out'[Len(out) + 1] = Printed("subcommand", cmdr.name, <<cont.name>>)
                           /\ exit' = NilPtr
                      ELSE /\ Len(ran') > Len(ran)
                           /\ ran'[Len(ran) + 1] =
                                  Call(cont.command, Deref(cmdr.matchingFlags).args)
                           /\ ~IsCommander(cont.command) =>
                                  Len(ran') = Len(ran) + 1 /\ out' = out /\ exit' = NilPtr
              IN /\ cont.name = Global(Deref(osArgs)).fs.args[1]
                 /\ Case(Global(Deref(osArgs)))
    ]_vars

\* c -h was parsed with cmd1 under c, and Run printed c's usage and ran nothing
C9_Witness ==
    /\ rev = "pkg" /\ osArgs = Ptr(<<nC, tH>>) /\ exit = NilPtr
    /\ matchingCmd # NilPtr /\ Deref(matchingCmd).command = "cmd1"
    /\ ran = <<>> /\ out = <<Printed("subcommandUsage", nC, <<>>)>>

\* ----------------------------------------------------------------------- C10
\* C10 as claimed: with no command registered, Parse returns for every
\* argument vector without printing or exiting, and Run after it does nothing.
C10_EveryVector ==
    [][/\ osArgs' # NilPtr =>
              /\ (Parse(Deref(osArgs')) /\ DOMAIN cmds = {}) =>
                     out' = out /\ ran' = ran /\ exit' = NilPtr
              /\ (CmdrParse(Deref(osArgs')) /\ DOMAIN cmdr.cmds = {}) =>
                     out' = out /\ ran' = ran /\ exit' = NilPtr
       /\ (Run /\ DOMAIN cmds = {}) => UNCHANGED <<out, ran, exit>>
       /\ (CmdrExec /\ DOMAIN cmdr.cmds = {}) => UNCHANGED <<out, ran, exit>>
    ]_vars

\* C10, amended: with no command registered, Parse returns without printing,
\* exiting or matching for every argument vector whose global options parse,
\* positional tokens or none, and Run after it returns silently and invokes
\* no handler.  A vector whose global options do not parse (an undeclared
\* option, -h, a value option without its value) ends the process inside
\* Parse: the package prints the flag usage, or calls the Run of the command
\* given to DefineHelp with the tokens after the first, and part_004 prints
\* the Commander's usage.
C10_NoCommands ==
    [][/\ osArgs' # NilPtr =>
              LET argv == Deref(osArgs')
                  PkgCase(g) ==
                      IF g.err = "nil"
                      THEN /\ out' = out /\ ran' = ran /\ exit' = NilPtr
                           /\ matchingCmd' = NilPtr
                      ELSE /\ exit' # NilPtr
                           /\ IF definedHelp # Nil
                              THEN ran' = Append(ran, Call(definedHelp, Tail(argv))) /\ out' = out
                              ELSE ran' = ran /\ out' = Append(out, Printed("flagUsage", Program, <<>>))
                  CmdrCase(g) ==
                      IF g.err = "nil"
                      THEN /\ out' = out /\ ran' = ran /\ exit' = NilPtr
                           /\ cmdr'.matchingCmd = NilPtr
                      ELSE /\ exit' # NilPtr /\ ran' = ran
                           /\ out' = Append(out, Printed("UsageOf", cmdr.name, <<>>))
              IN /\ (rev = "pkg" /\ DOMAIN cmds = {} /\ Parse(argv)) => PkgCase(Global(argv))
                 /\ (rev = "cmdr" /\ DOMAIN cmdr.cmds = {} /\ CmdrParse(argv)) =>
                        CmdrCase(Global(argv))
       /\ (rev = "pkg" /\ DOMAIN cmds = {} /\ Run) => UNCHANGED <<out, ran, exit, matchingCmd>>
       /\ (rev = "cmdr" /\ DOMAIN cmdr.cmds = {} /\ CmdrExec) =>
              UNCHANGED <<out, ran, exit, cmdr>>
    ]_vars

\* c -b was parsed with nothing registered: Parse returned in silence
C10_Witness ==
    /\ rev = "pkg" /\ osArgs = Ptr(<<nC, tB>>) /\ DOMAIN cmds = {} /\ definedHelp = Nil
    /\ matchingCmd = NilPtr /\ exit = NilPtr /\ ran = <<>> /\ out = <<>>

\* ----------------------------------------------------------------------- C11
\* the position in the vector of the token a completion call is about, and
\* what is typed of that token
Position(c) == IF c.inword THEN Len(c.args) - 1 ELSE Len(c.args)
Typed(c) == IF c.inword THEN c.args[Len(c.args)] ELSE <<>>

\* the candidates list holds exactly the names of mapping that start with
\* typed, each once
NamesStarting(list, mapping, typed) ==
    /\ Range(list) = {n \in DOMAIN mapping : IsPrefix(typed, n)}
    /\ Len(list) = Cardinality(Range(list))

\* C11: when the token being completed is at position 0 of the vector a
\* Commander is given, Compgen returns exactly the names registered in that
\* Commander that start with what is typed, every name when nothing is typed,
\* in some order and with a nil error; so for the root, and for the nested
\* Commander remote given the tokens after its name.
C11_NamesByPrefix ==
    comp # NilPtr =>
        LET c == Deref(comp)
            root == commanders["root"].cmds
        IN /\ Position(c) = 0 =>
                 /\ NamesStarting(c.comp, root, Typed(c))
                 /\ c.err = "nil" /\ exit = NilPtr
           /\ (Position(c) = 1 /\ c.args[1] \in DOMAIN root
                  /\ root[c.args[1]].command = "remote") =>
                 /\ NamesStarting(c.comp, commanders["remote"].cmds, Typed(c))
                 /\ c.err = "nil" /\ exit = NilPtr

\* c1 was typed with c and c1 registered: the candidates are c1 alone
C11_Witness ==
    /\ rev = "launch" /\ comp # NilPtr
    /\ DOMAIN commanders["root"].cmds = {nC, nC1}
    /\ Deref(comp).args = <<nC1>> /\ Deref(comp).inword
    /\ Deref(comp).comp = <<nC1>>

\* ----------------------------------------------------------------------- C12
\* what the completion surface of the handler cmd answers for the tokens rest
SurfaceOf(cmd, rest, inword) ==
    <<[flags |-> IF HasFlagger(cmd) THEN DOMAIN CmdFlags(cmd, NewFlagSet).formal ELSE {},
       args |-> rest, inword |-> inword]>>

\* C12: when the token being completed is at position 1 or later and the
\* first token names the nested Commander remote, the root builds remote's
\* surfaces and hands the tokens after the name and the cursor to remote,
\* which answers as a Commander does: its own names at its position 0,
\* nothing when its first token is no name of its, and for a name of a
\* handler that is no Commander what that handler's surface answers for the
\* tokens after that name, and the same again for the tokens after a name of
\* its that holds a Commander; the candidates never come from the root.
C12_Delegates ==
    comp # NilPtr =>
        LET c == Deref(comp)
            root == commanders["root"].cmds
            remote == commanders["remote"].cmds
            \* a name of remote that holds remote again hands the tokens on
            RECURSIVE Under(_)
            Under(rest) ==
                IF Len(rest) = (IF c.inword THEN 1 ELSE 0)
                THEN c.of = "remote" /\ NamesStarting(c.comp, remote, Typed(c))
                ELSE IF rest[1] \notin DOMAIN remote THEN c.of = "remote" /\ c.comp = <<>>
                ELSE IF ~HasCommander(remote[rest[1]].command)
                THEN /\ c.of = remote[rest[1]].command
                     /\ c.comp = SurfaceOf(remote[rest[1]].command, Tail(rest), c.inword)
                ELSE remote[rest[1]].command = "remote" /\ Under(Tail(rest))
        IN (Position(c) >= 1 /\ c.args[1] \in DOMAIN root /\ root[c.args[1]].command = "remote") =>
               /\ Len(steps) >= 3
               /\ SubSeq(steps, 1, 3) = <<[step |-> "Path", cmd |-> "remote"],
                                          [step |-> "Flags", cmd |-> "remote"],
                                          [step |-> "Compgens", cmd |-> "remote"]>>
               /\ Under(Tail(c.args))
               /\ c.err = "nil"

\* "c c " was completed with remote under c and cmd3 under remote's c: the
\* candidates are those of cmd3's surface for no tokens
C12_Witness ==
    /\ rev = "launch" /\ comp # NilPtr
    /\ Deref(comp).args = <<nC, nC>> /\ ~Deref(comp).inword
    /\ nC \in DOMAIN commanders["root"].cmds
    /\ commanders["root"].cmds[nC].command = "remote"
    /\ Deref(comp).of = "cmd3"
    /\ Deref(comp).comp = <<[flags |-> {}, args |-> <<>>, inword |-> FALSE]>>

\* ----------------------------------------------------------------------- C13
\* C13: for every argument vector, cursor position and command mapping,
\* Compgen returns a candidate list with a nil error: nothing is printed,
\* the process does not exit, and when the token being completed is at
\* position 1 or later and the first token is no registered name the list
\* is empty and no handler was prepared.
C13_NeverFails ==
    comp # NilPtr =>
        LET c == Deref(comp) IN
        /\ c.err = "nil" /\ exit = NilPtr /\ out = <<>>
        /\ (Position(c) >= 1 /\ c.args[1] \notin DOMAIN commanders["root"].cmds) =>
               c.comp = <<>> /\ steps = <<>>

\* "c1 -b" was completed inside -b with c alone registered: no candidates
C13_Witness ==
    /\ rev = "launch" /\ comp # NilPtr
    /\ DOMAIN commanders["root"].cmds = {nC}
    /\ Deref(comp).args = <<nC1, tB>> /\ Deref(comp).inword
    /\ Deref(comp).comp = <<>> /\ Deref(comp).err = "nil" /\ exit = NilPtr

\* ----------------------------------------------------------------------- C14
\* the steps prepare takes on the handler cmd, in order
Preparation(cmd) ==
    (IF HasCommander(cmd) THEN <<[step |-> "Path", cmd |-> cmd]>> ELSE <<>>)
    \o (IF HasFlagger(cmd) THEN <<[step |-> "Flags", cmd |-> cmd]>> ELSE <<>>)
    \o (IF HasCompleter(cmd) THEN <<[step |-> "Compgens", cmd |-> cmd]>> ELSE <<>>)

\* C14: for every vector and cursor position, at every depth, Compgen runs
\* no handler and parses no tokens with a flag set, whether or not they
\* would parse: the only steps taken on handlers are Path, Flags and
\* Compgens, first those of the handler the first token names, and the
\* process does not exit.
C14_NoRunNoParse ==
    comp # NilPtr =>
        LET c == Deref(comp)
            root == commanders["root"].cmds
        IN /\ ran = <<>> /\ exit = NilPtr
           /\ \A i \in 1..Len(steps) : steps[i].step \in {"Path", "Flags", "Compgens"}
           /\ (Position(c) >= 1 /\ c.args[1] \in DOMAIN root) =>
                  IsPrefix(Preparation(root[c.args[1]].command), steps)
           /\ (Position(c) = 0 \/ (Position(c) >= 1 /\ c.args[1] \notin DOMAIN root)) =>
                  steps = <<>>

\* "c -a" was completed with cmd1 under c: -a lacks its value, and the only
\* step is cmd1's Flags
C14_Witness ==
    /\ rev = "launch" /\ comp # NilPtr
    /\ Deref(comp).args = <<nC, tA>> /\ Deref(comp).inword
    /\ steps = <<[step |-> "Flags", cmd |-> "cmd1"]>>
    /\ ran = <<>> /\ exit = NilPtr

\* ----------------------------------------------------------------------- C15
RECURSIVE Preparations(_)
\* the steps of a walk that prepare a handler: all but the parsing
Preparations(walk) ==
    IF Len(walk) = 0 THEN <<>>
    ELSE IF walk[1].step = "Parse" THEN Preparations(Tail(walk))
    ELSE <<walk[1]>> \o Preparations(Tail(walk))

\* the world before any call
NoWorld == [out |-> <<>>, ran |-> <<>>, exit |-> NilPtr, steps |-> <<>>]

\* C15: for every mapping and every vector of at least one token completed at
\* position 1 or later, the completion walk and the dispatch walk of the same
\* Commander on the same vector select the same record for the first token:
\* Compgen prepares nothing and returns nothing exactly when Run prints the
\* Commander's usage and exits with status 1 without preparing a handler;
\* otherwise both prepare the same handler first, and level by level the
\* same handlers until one of the walks ends; and when both prepared the
\* same handlers the nested Commanders carry the same display names, parent
\* name, a blank and the name.  Under the nested Commander remote, given a
\* token that is no option, Compgen again returns nothing exactly when Run
\* prints remote's usage and exits with status 1.
C15_WalksAgree ==
    (comp # NilPtr /\ Position(Deref(comp)) >= 1) =>
        LET c == Deref(comp)
            root == commanders["root"]
            Agree(d) ==
                /\ (steps = <<>> /\ c.comp = <<>>) <=>
                       /\ d.w.steps = <<>> /\ d.w.exit = Ptr(1) /\ d.w.ran = <<>>
                       /\ d.w.out = <<Printed("Usage", root.name, SortStrings(DOMAIN root.cmds))>>
                /\ c.args[1] \in DOMAIN root.cmds =>
                       /\ IsPrefix(Preparation(root.cmds[c.args[1]].command), steps)
                       /\ IsPrefix(Preparation(root.cmds[c.args[1]].command),
                                   Preparations(d.w.steps))
                /\ \/ IsPrefix(steps, Preparations(d.w.steps))
                   \/ IsPrefix(Preparations(d.w.steps), steps)
                /\ steps = Preparations(d.w.steps) => commanders = d.cs
                /\ (c.args[1] \in DOMAIN root.cmds
                       /\ root.cmds[c.args[1]].command = "remote"
                       /\ Len(steps) = 3) =>
                       commanders["remote"].name = Qualified(root.name, c.args[1])
                /\ (Position(c) >= 2 /\ c.args[1] \in DOMAIN root.cmds
                       /\ root.cmds[c.args[1]].command = "remote"
                       /\ ~IsOption(c.args[2])) =>
                       ((Len(steps) = 3 /\ c.comp = <<>> /\ c.of = "remote") <=>
                           /\ Len(Preparations(d.w.steps)) = 3 /\ d.w.exit = Ptr(1)
                           /\ d.w.out = <<Printed("Usage", Qualified(root.name, c.args[1]),
                                                  SortStrings(DOMAIN commanders["remote"].cmds))>>)
        IN Agree(CommanderRun(commanders, NoWorld, "root", c.args))

\* "c c1 " was completed with remote under c and cmd3 under remote's c: both
\* walks select remote and then miss c1 under the name " c"
C15_Witness ==
    /\ rev = "launch" /\ comp # NilPtr
    /\ Deref(comp).args = <<nC, nC1>> /\ ~Deref(comp).inword
    /\ Len(steps) = 3 /\ steps[1] = [step |-> "Path", cmd |-> "remote"]
    /\ commanders["remote"].name = <<" ", "c">>
    /\ DOMAIN commanders["remote"].cmds = {nC}
    /\ Deref(comp).comp = <<>>

\* ----------------------------------------------------------------------- C16
\* the steps of steps taken on the handler cmd, in order
StepsOn(cmd) ==
    LET RECURSIVE Pick(_)
        Pick(walk) == IF Len(walk) = 0 THEN <<>>
                      ELSE IF walk[1].cmd = cmd THEN <<walk[1].step>> \o Pick(Tail(walk))
                      ELSE Pick(Tail(walk))
    IN Pick(steps)

\* C16: the capabilities are detected one by one.  A handler that Launch
\* prepares once gets Path exactly when it is a Commander, then Flags exactly
\* when it is a Flagger, then Compgens exactly when it is a Completer, and
\* then the parse of its tokens, whichever of the others it has; the
\* handlers registered are a Flagger, a Completer, one that is both, one
\* that is neither and the Commanders.  A handler with Run alone, given
\* tokens that start with no option, is run with them after no
\* configuration step, with nothing printed and no exit.
C16_Capabilities ==
    (rev = "launch" /\ comp = NilPtr /\ osArgs # NilPtr) =>
        LET argv == Deref(osArgs)
            root == commanders["root"].cmds
            Expected(cmd) ==
                (IF HasCommander(cmd) THEN <<"Path">> ELSE <<>>)
                \o (IF HasFlagger(cmd) THEN <<"Flags">> ELSE <<>>)
                \o (IF HasCompleter(cmd) THEN <<"Compgens">> ELSE <<>>)
                \o <<"Parse">>
        IN /\ StepsOn("root") = Expected("root")
           /\ \A cmd \in LaunchCmds \ {"root"} :
                  \/ StepsOn(cmd) = <<>>
                  \/ IsPrefix(Expected(cmd), StepsOn(cmd))
           /\ (Len(argv) >= 1 /\ ~IsOption(argv[1]) /\ argv[1] \in DOMAIN root) =>
                  StepsOn(root[argv[1]].command) # <<>>
           /\ (Len(argv) >= 1 /\ argv[1] \in DOMAIN root /\ root[argv[1]].command = "cmd3"
                  /\ (Len(argv) >= 2 => ~IsOption(argv[2]))) =>
                  /\ steps = <<[step |-> "Path", cmd |-> "root"], [step |-> "Flags", cmd |-> "root"],
                               [step |-> "Compgens", cmd |-> "root"], [step |-> "Parse", cmd |-> "root"],
                               [step |-> "Parse", cmd |-> "cmd3"]>>
                  /\ ran = <<Call("root", argv), Call("cmd3", Tail(argv))>>
                  /\ out = <<>> /\ exit = NilPtr

\* c was dispatched to cmd4, a Completer that is no Flagger: Compgens and the
\* parse are the steps taken on it
C16_Witness ==
    /\ rev = "launch" /\ comp = NilPtr /\ osArgs = Ptr(<<nC>>)
    /\ steps = <<[step |-> "Path", cmd |-> "root"], [step |-> "Flags", cmd |-> "root"],
                 [step |-> "Compgens", cmd |-> "root"], [step |-> "Parse", cmd |-> "root"],
                 [step |-> "Compgens", cmd |-> "cmd4"], [step |-> "Parse", cmd |-> "cmd4"]>>
    /\ ran = <<Call("root", <<nC>>), Call("cmd4", <<>>)>> /\ exit = NilPtr

\* ----------------------------------------------------------------------- C17
\* part_003: whenever a step was taken on the nested Commander remote, the
\* first was Path, and remote carries a name made of the root's, a blank and
\* the matched name (and further names below it), whether or not the
\* process went on to fail
C17_LaunchNameFirst ==
    (rev = "launch" /\ comp = NilPtr /\ StepsOn("remote") # <<>>) =>
        /\ StepsOn("remote")[1] = "Path"
        /\ IsPrefix(Qualified(Program, Deref(osArgs)[1]), commanders["remote"].name)

\* part_004: every usage printed is headed by the root's display name or by
\* a name made of it, a blank and the matched names
C17_CmdrNameFirst ==
    rev = "cmdr" =>
        \A i \in 1..Len(out) :
            out[i].kind \in {"Usage", "UsageOf"} => IsPrefix(Program, out[i].name)

\* C17: on a match whose handler is a nested Commander the handler's display
\* name is set to the parent's display name, a blank and the matched name
\* before any other step on the handler, so that on every path, those where
\* the parse of the remaining tokens fails included, the nested Commander
\* already carries that name and its usage is headed by it.
C17_NameFirst == C17_LaunchNameFirst /\ C17_CmdrNameFirst

\* part_004, "c -a" with sub under c: -a lacks its value, and the usage
\* printed is headed by the name sub's Flags gave its Commander
C17_Witness ==
    /\ rev = "cmdr" /\ osArgs = Ptr(<<nC, tA>>) /\ exit # NilPtr
    /\ nC \in DOMAIN cmdr.cmds /\ cmdr.cmds[nC].command = "sub"
    /\ out = <<Printed("Usage", SubName, <<nC, nC1>>)>>

\* ----------------------------------------------------------------------- C18
\* C18: the required options are checked before -h is looked at.  When the
\* tokens after a matched command set -h but miss one of its required
\* options a and b, Parse prints the subcommand usage and the process exits
\* with a non-zero status inside Parse, no handler having run; and whenever
\* Run (or Exec of part_004) prints a matched command's help and returns,
\* every required option of that command was supplied.
C18_RequiredBeforeHelp ==
    [][/\ osArgs' # NilPtr =>
              LET argv == Deref(osArgs')
                  Missing(cont, rest) ==
                      /\ cont.requiredFlags = <<fA, fB>>
                      /\ HelpGiven(cont.command, rest) /\ WellFormed(rest)
                      /\ ~({fA, fB} \subseteq Supplied(rest))
                  PkgCase(g) ==
                      (HasForm(g, cmds) /\ Missing(cmds[g.fs.args[1]], Tail(g.fs.args))
                          /\ (Parse(argv) \/ ParseAndRun(argv))) =>
                          /\ exit' = Ptr(1) /\ ran' = ran
                          /\ out' = Append(out, Printed("subcommandUsage", g.fs.args[1],
                                                        <<fA, fB>>))
                  CmdrCase(g) ==
                      (HasForm(g, cmdr.cmds)
                          /\ Missing(cmdr.cmds[g.fs.args[1]], Tail(g.fs.args))
                          /\ (CmdrParse(argv) \/ Exec(argv))) =>
                          /\ exit' = Ptr(1) /\ ran' = ran
                          /\ Len(out') > Len(out)
                          /\ out'[Len(out) + 1] = Printed("subcommand", Program, <<g.fs.args[1]>>)
              IN /\ (rev = "pkg" /\ numOn' = numOn) => PkgCase(Global(argv))
                 /\ (rev = "cmdr" /\ numOn' = numOn) => CmdrCase(Global(argv))
       /\ (rev = "pkg" /\ matchingCmd # NilPtr /\ out' # out /\ Run) =>
              /\ exit' = NilPtr /\ Deref(flagHelp)
              /\ Range(Deref(matchingCmd).requiredFlags)
                     \subseteq Supplied(Tail(Global(Deref(osArgs)).fs.args))
       /\ (rev = "cmdr" /\ CmdrExec /\ cmdr.matchingCmd # NilPtr /\ cmdr.flagHelp # NilPtr
              /\ Deref(cmdr.flagHelp)) =>
              Range(Deref(cmdr.matchingCmd).requiredFlags)
                  \subseteq Supplied(Tail(Global(Deref(osArgs)).fs.args))
    ]_vars

\* "c -h" was parsed with cmd1 under c requiring a and b: Parse printed c's
\* usage and the process exited with status 1
C18_Witness ==
    /\ rev = "pkg" /\ osArgs = Ptr(<<nC, tH>>) /\ exit = Ptr(1) /\ ran = <<>>
    /\ flagHelp = Ptr(TRUE)
    /\ out = <<Printed("subcommandUsage", nC, <<fA, fB>>)>>

\* ----------------------------------------------------------------------- C19
RECURSIVE Residual(_, _)
\* the tokens of rest that are left for the handler command: those from the
\* first token on that is neither an option nor the value of -a
Residual(command, rest) ==
    IF Len(rest) = 0 THEN <<>>
    ELSE CASE rest[1] = tA /\ command # "cmd2" ->
                  IF Len(rest) >= 2 THEN Residual(command, Tail(Tail(rest))) ELSE <<>>
           [] rest[1] \in {tA, tA1, tB, tH} -> Residual(command, Tail(rest))
           [] OTHER -> rest

\* C19: in every reachable state a matched command comes with a help-flag
\* pointer that is not nil, so that Run and Exec never dereference nil,
\* whatever the order of On, Parse and Run, Run before any Parse and Run
\* after Run included; and while the process lives the matched command, the
\* help flag and the residual arguments are those of one Parse: the command
\* is named by the first positional token, the help flag says whether -h is
\* among the options after it, and the arguments are the tokens the options
\* leave.
C19_HelpPointer ==
    /\ \A i \in 1..Len(out) : out[i].kind # "panic"
    /\ matchingCmd # NilPtr => flagHelp # NilPtr
    /\ cmdr.matchingCmd # NilPtr => cmdr.flagHelp # NilPtr /\ cmdr.matchingFlags # NilPtr
    /\ (cmdr.sub # NilPtr /\ Deref(cmdr.sub).matchingCmd # NilPtr) =>
           Deref(cmdr.sub).flagHelp # NilPtr
    /\ (rev = "pkg" /\ matchingCmd # NilPtr /\ exit = NilPtr) =>
           LET cont == Deref(matchingCmd)
               Same(g) ==
                   /\ Len(g.fs.args) >= 1 /\ cont.name = g.fs.args[1]
                   /\ Deref(flagHelp) = HelpGiven(cont.command, Tail(g.fs.args))
                   /\ args = Residual(cont.command, Tail(g.fs.args))
           IN osArgs # NilPtr /\ Same(Global(Deref(osArgs)))
    /\ (rev = "cmdr" /\ cmdr.matchingCmd # NilPtr /\ exit = NilPtr) =>
           LET cont == Deref(cmdr.matchingCmd)
               Same(g) ==
                   /\ Len(g.fs.args) >= 1 /\ cont.name = g.fs.args[1]
                   /\ Deref(cmdr.flagHelp) = HelpGiven(cont.command, Tail(g.fs.args))
                   /\ Deref(cmdr.matchingFlags).args = Residual(cont.command, Tail(g.fs.args))
           IN osArgs # NilPtr /\ Same(Global(Deref(osArgs)))

\* "c -b c1" was parsed and Run was called twice: cmd1 ran twice with c1
C19_Witness ==
    /\ rev = "pkg" /\ osArgs = Ptr(<<nC, tB, nC1>>) /\ exit = NilPtr
    /\ matchingCmd # NilPtr /\ flagHelp = Ptr(FALSE) /\ args = <<nC1>>
    /\ ran = <<Call("cmd1", <<nC1>>), Call("cmd1", <<nC1>>)>>

\* ----------------------------------------------------------------------- C20
\* C20: Run works on the record the last successful Parse captured, not on
\* the record the mapping holds now. A Parse that returns with commands
\* registered captures the record the mapping holds for the first positional
\* token at that time, and the tokens its options leave; On changes neither
\* the matched command nor the arguments nor the help flag, and no entry of
\* the mapping but the one of its name; Run hands the captured arguments to
\* the captured record's command (or, with -h, prints the usage of the
\* captured record) and changes none of the three.
C20_RunsCaptured ==
    [][ /\ \A r \in Registrations : (rev = "pkg" /\ numOn' # numOn /\ On(r)) =>
               /\ matchingCmd' = matchingCmd /\ args' = args /\ flagHelp' = flagHelp
               /\ DOMAIN cmds' = DOMAIN cmds \cup {r.name}
               /\ cmds'[r.name] = [name |-> r.name, command |-> r.command,
                                   requiredFlags |-> r.requiredFlags]
               /\ \A n \in DOMAIN cmds \ {r.name} : cmds'[n] = cmds[n]
        /\ (rev = "pkg" /\ osArgs' # NilPtr /\ exit' = NilPtr /\ DOMAIN cmds # {}) =>
               (Parse(Deref(osArgs')) =>
                   LET Captured(g) ==
                           /\ Len(g.fs.args) >= 1 /\ g.fs.args[1] \in DOMAIN cmds
                           /\ matchingCmd' = Ptr(cmds[g.fs.args[1]])
                           /\ args' = Residual(cmds[g.fs.args[1]].command, Tail(g.fs.args))
                   IN Captured(Global(Deref(osArgs'))))
        /\ (rev = "pkg" /\ matchingCmd # NilPtr /\ Run) =>
               /\ matchingCmd' = matchingCmd /\ args' = args /\ flagHelp' = flagHelp
               /\ flagHelp # NilPtr
               /\ IF Deref(flagHelp)
                  THEN /\ ran' = ran
                       /\ out' = Append(out, Printed("subcommandUsage", Deref(matchingCmd).name,
                                                     Deref(matchingCmd).requiredFlags))
                  ELSE /\ out' = out
                       /\ ran' = Append(ran, Call(Deref(matchingCmd).command, args))
      ]_vars

\* cmd1 was parsed under c with "c c1", cmd2 was registered under c after
\* that, and Run ran cmd1 with c1
C20_Witness ==
    /\ rev = "pkg" /\ osArgs = Ptr(<<nC, nC1>>) /\ exit = NilPtr
    /\ matchingCmd = Ptr([name |-> nC, command |-> "cmd1", requiredFlags |-> <<>>])
    /\ nC \in DOMAIN cmds /\ cmds[nC].command = "cmd2"
    /\ ran = <<Call("cmd1", <<nC1>>)>>

\* ----------------------------------------------------------------------- C21
\* the lengths in lens fall strictly
Falling(lens) == \A i \in 1..(Len(lens) - 1) : lens[i + 1] < lens[i]

RECURSIVE ParseLevels(_)
\* the numbers of positional tokens the Commanders of part_004 had before
\* them, from c down the Commanders nested in it
ParseLevels(c) ==
    <<Len(c.flags.args)>> \o (IF c.sub = NilPtr THEN <<>> ELSE ParseLevels(Deref(c.sub)))

\* the numbers of tokens the calls of Run got, in the order of the calls
RunLevels == [i \in 1..Len(ran) |-> Len(ran[i].args)]

\* the handlers a walk gave a Path, one for each Commander it descended into
Descents == {i \in 1..Len(steps) : steps[i].step = "Path"}

\* C21: resolution ends after at most len(argument vector) + 1 levels, for
\* every argument vector and every command tree, one with a Commander
\* registered beneath itself included, because every level hands on fewer
\* tokens than it got.  After Launch the calls of Run are at most
\* len(argv) + 1, the first got at most len(argv) tokens and each later one
\* fewer than the one before, every call but the last is a Commander's, and
\* the walk ended in a handler that is no Commander or in an exit.  After
\* Compgen the walk descended into at most as many Commanders as there are
\* tokens before the one being completed.  In part_004 the Commanders that
\* Parse nested had fewer positional tokens each than the one above, the
\* root at most len(argv).
C21_WalkBounded ==
    /\ (rev = "launch" /\ osArgs # NilPtr /\ comp = NilPtr) =>
           /\ Len(ran) <= Len(Deref(osArgs)) + 1
           /\ Len(ran) >= 1 => RunLevels[1] <= Len(Deref(osArgs))
           /\ Falling(RunLevels)
           /\ \A i \in 1..(Len(ran) - 1) : HasCommander(ran[i].cmd)
           /\ exit # NilPtr \/ (Len(ran) >= 2 /\ ~HasCommander(ran[Len(ran)].cmd))
    /\ (rev = "launch" /\ comp # NilPtr) =>
           /\ Cardinality(Descents) <= Position(Deref(comp))
           /\ Cardinality(Descents) + 1 <= Len(Deref(comp).args) + 1
           /\ \A i \in Descents : HasCommander(steps[i].cmd)
           /\ exit = NilPtr
    /\ (rev = "cmdr" /\ osArgs # NilPtr) =>
           /\ Len(ParseLevels(cmdr)) <= Len(Deref(osArgs)) + 1
           /\ ParseLevels(cmdr)[1] <= Len(Deref(osArgs))
           /\ Falling(ParseLevels(cmdr))

\* remote is registered beneath itself under c1 and beneath the root under
\* c, and "c c1 c1" was dispatched: Run was called on the root, then three
\* times on remote with one token less each time, and the last call, with
\* no token left, printed remote's usage and exited with status 1
C21_Witness ==
    /\ rev = "launch" /\ osArgs = Ptr(<<nC, nC1, nC1>>) /\ exit = Ptr(1)
    /\ nC1 \in DOMAIN commanders["remote"].cmds
    /\ commanders["remote"].cmds[nC1].command = "remote"
    /\ ran = <<Call("root", <<nC, nC1, nC1>>), Call("remote", <<nC1, nC1>>),
               Call("remote", <<nC1>>), Call("remote", <<>>)>>

====
